---- MODULE Spec2Model ----
(***************************************************************************)
(* Headless SVG geometry emulation of dmn-js-mcp:                          *)
(*   - src/src/headless-polyfills.ts : SVGMatrix, SVGTransform items, the  *)
(*     per-element TransformList and its `transform` attribute;            *)
(*   - src/src/errors.ts (the headless getBBox code, lines 139-399) : the  *)
(*     tag-dispatched bounding-box estimator.                              *)
(*                                                                         *)
(* Objects are modelled as a heap: transform items and transform lists are *)
(* numbered, a list holds item numbers, so that an item mutated after it   *)
(* was put into a list is seen by the list (JavaScript reference           *)
(* semantics).  In a list's array 0 stands for a hole (reads `undefined`). *)
(* A returned value is an item number, 0 for `undefined`, -1 for `null`.   *)
(***************************************************************************)
EXTENDS Integers, Sequences, FiniteSets, TLC

\* ------------------------------------------------------------------ bounds
\* number of calls made on the polyfilled objects in one run; a call
\* allocates at most one object, so the heap needs no bound of its own
MaxCalls == 5

\* the SVG elements whose `transform` property is used
Elements == {"e1", "e2"}

VARIABLES
  attribute,      \* attribute[el]: the element's `transform` attribute
  elList,    \* elList[el]: el._transformList (0: not yet created)
  lists,     \* lists[l]: the TransformList objects of the heap
  objs,      \* objs[i]: the SVGTransform item objects of the heap
  last,      \* the last call: operation, outcome, returned value, receiver
  calls,     \* number of calls made so far
  node,      \* the element getBBox is called on
  box,       \* what the last getBBox call returned
  empty,     \* the fields of the module's one EMPTY box object
  doc,       \* doc[el]: the elements of the document as they are now
  prev,      \* what the getBBox call before the last one returned
  mats,      \* mats[i]: the SVGMatrix objects of the heap
  diagrams,  \* the diagram store: a Map from id to DiagramState, in insertion order
  modelerToDiagramId,  \* the reverse index: a WeakMap from modeler to id
  states,    \* states[s]: the DiagramState objects of the heap
  modelers,  \* modelers[m]: the modeler objects of the heap
  reply      \* what the last call of a tool or of a store function returned

tvars == <<attribute, elList, lists, objs, last, calls>>
bvars == <<node, box, empty, doc, prev>>
svars == <<diagrams, modelerToDiagramId, states, modelers, reply>>
vars == <<tvars, bvars, mats, svars>>

\* number of allocated TransformList objects, of allocated item objects
nLists == Len(lists)
nItems == Len(objs)

\* ------------------------------------------------------------- SVGMatrix
\* (mutation) the field initialisers leave every coefficient 0
SVGMatrixZeroed == [a |-> 0, b |-> 0, c |-> 0, d |-> 0, e |-> 0, f |-> 0]

\* class SVGMatrix field initialisers: the identity
SVGMatrix == [a |-> 1, b |-> 0, c |-> 0, d |-> 1, e |-> 0, f |-> 0]

\* (mutation) the operands are taken in the other order
multiplyReversed(t, o) ==
  [a |-> o.a * t.a + o.c * t.b,
   b |-> o.b * t.a + o.d * t.b,
   c |-> o.a * t.c + o.c * t.d,
   d |-> o.b * t.c + o.d * t.d,
   e |-> o.a * t.e + o.c * t.f + o.e,
   f |-> o.b * t.e + o.d * t.f + o.f]

\* (mutation) the receiver's own translation is dropped
multiplyNoOffset(t, o) ==
  [a |-> t.a * o.a + t.c * o.b,
   b |-> t.b * o.a + t.d * o.b,
   c |-> t.a * o.c + t.c * o.d,
   d |-> t.b * o.c + t.d * o.d,
   e |-> t.a * o.e + t.c * o.f,
   f |-> t.b * o.e + t.d * o.f]

multiply(t, o) ==
  [a |-> t.a * o.a + t.c * o.b,
   b |-> t.b * o.a + t.d * o.b,
   c |-> t.a * o.c + t.c * o.d,
   d |-> t.b * o.c + t.d * o.d,
   e |-> t.a * o.e + t.c * o.f + t.e,
   f |-> t.b * o.e + t.d * o.f + t.f]

\* this / det where det divides this (other quotients are no integers)
Quotient(n, det) == IF det > 0 THEN n \div det ELSE (0 - n) \div (0 - det)

\* the determinant
Det(t) == t.a * t.d - t.b * t.c

\* every coefficient of the inverse is an integer
Exact(t) ==
  LET det == IF Det(t) < 0 THEN 0 - Det(t) ELSE Det(t)
  IN Det(t) # 0 =>
       \A n \in {t.a, t.b, t.c, t.d, t.c * t.f - t.d * t.e, t.b * t.e - t.a * t.f} :
          n % det = 0

\* (mutation) the translation is negated instead of inverted
inverseNegatedOffset(t) ==
  IF Det(t) = 0 THEN SVGMatrix
  ELSE [a |-> Quotient(t.d, Det(t)),
        b |-> Quotient(0 - t.b, Det(t)),
        c |-> Quotient(0 - t.c, Det(t)),
        d |-> Quotient(t.a, Det(t)),
        e |-> 0 - t.e,
        f |-> 0 - t.f]

\* (mutation) a singular matrix gives the identity moved back by (e, f)
inverseSingularMovedBack(t) ==
  IF Det(t) = 0 THEN [SVGMatrix EXCEPT !.e = 0 - t.e, !.f = 0 - t.f]
  ELSE [a |-> Quotient(t.d, Det(t)),
        b |-> Quotient(0 - t.b, Det(t)),
        c |-> Quotient(0 - t.c, Det(t)),
        d |-> Quotient(t.a, Det(t)),
        e |-> Quotient(t.c * t.f - t.d * t.e, Det(t)),
        f |-> Quotient(t.b * t.e - t.a * t.f, Det(t))]

\* Math.abs(det) < 1e-10 is det = 0 for an integer determinant
inverse(t) ==
  IF Det(t) = 0 THEN SVGMatrix
  ELSE [a |-> Quotient(t.d, Det(t)),
        b |-> Quotient(0 - t.b, Det(t)),
        c |-> Quotient(0 - t.c, Det(t)),
        d |-> Quotient(t.a, Det(t)),
        e |-> Quotient(t.c * t.f - t.d * t.e, Det(t)),
        f |-> Quotient(t.b * t.e - t.a * t.f, Det(t))]

translate(t, x, y) == multiply(t, [SVGMatrix EXCEPT !.e = x, !.f = y])

scale(t, s) == multiply(t, [SVGMatrix EXCEPT !.a = s, !.d = s])

\* ---------------------------------------------------- SVGTransform items
\* Math.cos / Math.sin of angle degrees; exact in floating point only at 0
Cos(angle) == CASE angle = 0 -> 1
Sin(angle) == CASE angle = 0 -> 0

createSVGTransformObject == [type |-> 0, matrix |-> SVGMatrix, angle |-> 0]

\* (mutation) the offsets are written into the matrix the item had
setTranslateKeeping(item, x, y) ==
  [item EXCEPT !.matrix.e = x, !.matrix.f = y, !.type = 2]

setTranslate(item, x, y) ==
  [item EXCEPT !.matrix = [SVGMatrix EXCEPT !.e = x, !.f = y], !.type = 2]

setScale(item, sx, sy) ==
  [item EXCEPT !.matrix = [SVGMatrix EXCEPT !.a = sx, !.d = sy], !.type = 3]

setRotate(item, angle, cx, cy) ==
  LET cos == Cos(angle)
      sin == Sin(angle)
  IN [item EXCEPT !.angle = angle,
                  !.matrix = [a |-> cos, b |-> sin, c |-> -sin, d |-> cos,
                              e |-> (1 - cos) * cx + sin * cy,
                              f |-> (-sin) * cx + (1 - cos) * cy],
                  !.type = 4]

\* m.k ?? dflt : m is any object, a field it lacks reads undefined
Coalesce(m, k, dflt) == IF k \in DOMAIN m THEN m[k] ELSE dflt

setMatrix(item, m) ==
  [item EXCEPT !.matrix = [a |-> Coalesce(m, "a", 1), b |-> Coalesce(m, "b", 0),
                           c |-> Coalesce(m, "c", 0), d |-> Coalesce(m, "d", 1),
                           e |-> Coalesce(m, "e", 0), f |-> Coalesce(m, "f", 0)],
                  !.type = 1]

\* ------------------------------------------------- syncTransformAttribute
\* an attribute: absent (getAttribute gives null) or a string
Absent == [present |-> FALSE, value |-> ""]
Str(s) == [present |-> TRUE, value |-> s]

\* `${n}` of an integer
Fmt(n) == ToString(n)

\* (mutation) the translate shorthand is never taken
PartOfAlwaysMatrix(m) ==
  "matrix(" \o Fmt(m.a) \o ", " \o Fmt(m.b) \o ", " \o Fmt(m.c) \o ", "
            \o Fmt(m.d) \o ", " \o Fmt(m.e) \o ", " \o Fmt(m.f) \o ")"

\* one transform function, lines 67-71
PartOf(m) ==
  IF m.a = 1 /\ m.b = 0 /\ m.c = 0 /\ m.d = 1
  THEN "translate(" \o Fmt(m.e) \o ", " \o Fmt(m.f) \o ")"
  ELSE "matrix(" \o Fmt(m.a) \o ", " \o Fmt(m.b) \o ", " \o Fmt(m.c) \o ", "
                 \o Fmt(m.d) \o ", " \o Fmt(m.e) \o ", " \o Fmt(m.f) \o ")"

\* parts.join(sep)
RECURSIVE Join(_, _)
Join(parts, sep) ==
  IF Len(parts) = 0 THEN ""
  ELSE IF Len(parts) = 1 THEN parts[1]
  ELSE parts[1] \o sep \o Join(Tail(parts), sep)

\* the loop of lines 64-72 over an array without holes
RECURSIVE Parts(_, _)
Parts(items, heap) ==
  IF Len(items) = 0 THEN <<>>
  ELSE <<PartOf(heap[Head(items)].matrix)>> \o Parts(Tail(items), heap)

\* for (const item of list._items) reads item.matrix: a hole yields undefined
\* and the read throws TypeError before setAttribute is reached
SyncThrows(items) == \E i \in 1..Len(items) : items[i] = 0

\* the attribute after syncTransformAttribute(list), given the one before
syncTransformAttribute(items, heap, old) ==
  IF Len(items) = 0 THEN Absent
  ELSE IF SyncThrows(items) THEN old
  ELSE Str(Join(Parts(items, heap), " "))

SyncOutcome(items) == IF SyncThrows(items) THEN "TypeError" ELSE "ok"

\* ------------------------------------------------------ createTransformList
\* property keys below 0 that an index argument can name
NegKeys == {-1}

createTransformList(element) ==
  [numberOfItems |-> 0, items |-> <<>>, element |-> element,
   neg |-> [k \in NegKeys |-> 0]]

Min2(x, y) == IF x < y THEN x ELSE y
Max2(x, y) == IF x > y THEN x ELSE y

\* Array.prototype.splice: the relative start index
SpliceStart(len, index) ==
  IF index < 0 THEN Max2(len + index, 0) ELSE Min2(index, len)

\* items.splice(index, 0, x)
SpliceInsert(items, index, x) ==
  LET k == SpliceStart(Len(items), index)
  IN SubSeq(items, 1, k) \o <<x>> \o SubSeq(items, k + 1, Len(items))

\* what items.splice(index, 1) leaves in the array
SpliceRemove(items, index) ==
  LET k == SpliceStart(Len(items), index)
  IN SubSeq(items, 1, k) \o SubSeq(items, k + 2, Len(items))

\* items.splice(index, 1)[0]
SpliceRemoved(items, index) ==
  LET k == SpliceStart(Len(items), index)
  IN IF k < Len(items) THEN items[k + 1] ELSE 0

\* items[index] = x on a JavaScript array: below 0 it sets a property and
\* leaves length alone, past the end it extends the array with holes
ArraySet(list, index, x) ==
  IF index < 0 THEN [list EXCEPT !.neg[index] = x]
  ELSE IF index < Len(list.items) THEN [list EXCEPT !.items[index + 1] = x]
  ELSE [list EXCEPT !.items =
          list.items \o [j \in 1..(index - Len(list.items)) |-> 0] \o <<x>>]

\* items[index]
ArrayGet(list, index) ==
  IF index < 0 THEN (IF index \in NegKeys THEN list.neg[index] ELSE 0)
  ELSE IF index < Len(list.items) THEN list.items[index + 1]
  ELSE 0

\* the loop of consolidate(), lines 83-88: result = result.multiply(item.matrix)
RECURSIVE ConsolidateMatrix(_, _, _)
ConsolidateMatrix(items, heap, result) ==
  IF Len(items) = 0 THEN result
  ELSE ConsolidateMatrix(Tail(items), heap, multiply(result, heap[Head(items)].matrix))

\* (mutation) the cached list is not looked at
transformListAlwaysFresh(cached, fresh) == fresh

\* this._transformList after line 225
transformList(cached, fresh) == IF cached = 0 THEN fresh ELSE cached

\* the object the `transform` getter returns, line 226
transformValue(l) == [baseVal |-> l, animVal |-> l]

\* ------------------------------------------------------------------ inputs
TranslateArgs == {<<5, 3>>}
ScaleArgs == {<<2, 2>>}
RotateArgs == {<<0, 4, 4>>}
\* arguments of setMatrix / createSVGTransformFromMatrix: a plain object
\* that has only e, and a quarter turn that has no e and f
MatrixArgs == {[e |-> 7], [a |-> 0, b |-> 1, c |-> -1, d |-> 0]}
\* the document: e1 carries a `transform` attribute in its markup, e2 none
MarkupTransform(el) == IF el = "e1" THEN Str("translate(5, 5)") ELSE Absent

\* the record of a call: recv is the list or item it was made on, before the
\* array a list method found; for the getter, el is the element, cached its
\* _transformList before the call, baseVal and animVal what was returned
Call(op, outcome, ret, recv) ==
  [op |-> op, outcome |-> outcome, ret |-> ret, recv |-> recv, before |-> <<>>,
   el |-> "", cached |-> 0, baseVal |-> 0, animVal |-> 0, args |-> <<>>]

ListCall(op, outcome, ret, l) ==
  [Call(op, outcome, ret, l) EXCEPT !.before = lists[l].items]

\* a call returns (or throws): it is recorded and counted
Returns(call) ==
  /\ calls < MaxCalls
  /\ calls' = calls + 1
  /\ last' = call
  /\ UNCHANGED <<bvars, mats, svars>>

TInit ==
  /\ attribute = [el \in Elements |-> MarkupTransform(el)]
  /\ elList = [el \in Elements |-> 0]
  /\ lists = <<>>
  /\ objs = <<>>
  /\ last = Call("none", "ok", 0, 0)
  /\ calls = 0

\* ------------------------------------------------ the TransformList methods
\* the list fields after each method's assignments, before the sync
consolidate(list, consolidated) ==
  [list EXCEPT !.items = <<consolidated>>, !.numberOfItems = 1]

clear(list) == [list EXCEPT !.items = <<>>, !.numberOfItems = 0]

getItem(list, index) == ArrayGet(list, index)

insertItemBefore(list, newItem, index) ==
  LET spliced == SpliceInsert(list.items, index, newItem)
  IN [list EXCEPT !.items = spliced, !.numberOfItems = Len(spliced)]

\* numberOfItems is not assigned
replaceItem(list, newItem, index) == ArraySet(list, index, newItem)

removeItem(list, index) ==
  LET spliced == SpliceRemove(list.items, index)
  IN [list EXCEPT !.items = spliced, !.numberOfItems = Len(spliced)]

appendItem(list, item) ==
  LET pushed == Append(list.items, item)
  IN [list EXCEPT !.items = pushed, !.numberOfItems = Len(pushed)]

initialize(list, item) == [list EXCEPT !.items = <<item>>, !.numberOfItems = 1]

\* (mutation) the attribute is written on every element of the document
StoreAndSyncEverywhere(l, newList, heap, op, ret) ==
  /\ lists' = [lists EXCEPT ![l] = newList]
  /\ attribute' = [el \in Elements |->
                syncTransformAttribute(newList.items, heap, attribute[newList.element])]
  /\ Returns(ListCall(op, SyncOutcome(newList.items),
                      IF SyncThrows(newList.items) THEN 0 ELSE ret, l))

\* a method stores the list and ends with syncTransformAttribute(this); when
\* that throws, the method's assignments stay and nothing is returned
StoreAndSync(l, newList, heap, op, ret) ==
  /\ lists' = [lists EXCEPT ![l] = newList]
  /\ attribute' = [attribute EXCEPT ![newList.element] =
                syncTransformAttribute(newList.items, heap, attribute[newList.element])]
  /\ Returns(ListCall(op, SyncOutcome(newList.items),
                      IF SyncThrows(newList.items) THEN 0 ELSE ret, l))

\* --------------------------------------------------------------- actions
\* element.transform (the getter of lines 224-227)
ReadTransform(el) ==
  LET l == transformList(elList[el], nLists + 1)
  IN /\ elList' = [elList EXCEPT ![el] = l]
     /\ lists' = IF l = nLists + 1 THEN Append(lists, createTransformList(el))
                 ELSE lists
     /\ Returns([Call("transform", "ok", 0, 0) EXCEPT
                   !.el = el,
                   !.cached = elList[el],
                   !.baseVal = transformValue(l).baseVal,
                   !.animVal = transformValue(l).animVal])
     /\ UNCHANGED <<attribute, objs>>

\* svg.createSVGTransform()
CreateSVGTransform ==
  /\ objs' = Append(objs, createSVGTransformObject)
  /\ Returns(Call("createSVGTransform", "ok", nItems + 1, 0))
  /\ UNCHANGED <<attribute, elList, lists>>

\* svg.createSVGTransformFromMatrix(m), list.createSVGTransformFromMatrix(m)
CreateSVGTransformFromMatrix(m) ==
  /\ objs' = Append(objs, setMatrix(createSVGTransformObject, m))
  /\ Returns(Call("createSVGTransformFromMatrix", "ok", nItems + 1, 0))
  /\ UNCHANGED <<attribute, elList, lists>>

\* an item's own mutators: they touch the item object only
\* (recorded with the arguments and with the item as the call found it)
SetItem(i, op, args, item) ==
  /\ objs' = [objs EXCEPT ![i] = item]
  /\ Returns([Call(op, "ok", 0, i) EXCEPT !.args = args, !.before = <<objs[i]>>])
  /\ UNCHANGED <<attribute, elList, lists>>

SetTranslate(i, x, y) ==
  SetItem(i, "setTranslate", <<x, y>>, setTranslate(objs[i], x, y))
SetScale(i, sx, sy) ==
  SetItem(i, "setScale", <<sx, sy>>, setScale(objs[i], sx, sy))
SetRotate(i, angle, cx, cy) ==
  SetItem(i, "setRotate", <<angle, cx, cy>>, setRotate(objs[i], angle, cx, cy))
SetMatrix(i, m) ==
  SetItem(i, "setMatrix", <<m>>, setMatrix(objs[i], m))

Consolidate(l) ==
  LET list == lists[l]
      new == nItems + 1
      heap == Append(objs, setMatrix(createSVGTransformObject,
                                     ConsolidateMatrix(list.items, objs, SVGMatrix)))
  IN IF Len(list.items) = 0
     THEN /\ Returns(ListCall("consolidate", "ok", -1, l))
          /\ UNCHANGED <<attribute, elList, lists, objs, mats>>
     ELSE IF SyncThrows(list.items)
     \* item.matrix of a hole throws inside the loop of lines 84-88
     THEN /\ Returns(ListCall("consolidate", "TypeError", 0, l))
          /\ UNCHANGED <<attribute, elList, lists, objs, mats>>
     ELSE /\ objs' = heap
          /\ StoreAndSync(l, consolidate(list, new), heap, "consolidate", new)
          /\ UNCHANGED elList

Clear(l) ==
  /\ StoreAndSync(l, clear(lists[l]), objs, "clear", 0)
  /\ UNCHANGED <<elList, objs>>

GetItem(l, index) ==
  /\ Returns(ListCall("getItem", "ok", getItem(lists[l], index), l))
  /\ UNCHANGED <<attribute, elList, lists, objs, mats>>

InsertItemBefore(l, i, index) ==
  /\ StoreAndSync(l, insertItemBefore(lists[l], i, index), objs, "insertItemBefore", i)
  /\ UNCHANGED <<elList, objs>>

ReplaceItem(l, i, index) ==
  /\ StoreAndSync(l, replaceItem(lists[l], i, index), objs, "replaceItem", i)
  /\ UNCHANGED <<elList, objs>>

RemoveItem(l, index) ==
  /\ StoreAndSync(l, removeItem(lists[l], index), objs, "removeItem",
                  SpliceRemoved(lists[l].items, index))
  /\ UNCHANGED <<elList, objs>>

AppendItem(l, i) ==
  /\ StoreAndSync(l, appendItem(lists[l], i), objs, "appendItem", i)
  /\ UNCHANGED <<elList, objs>>

Initialize(l, i) ==
  /\ StoreAndSync(l, initialize(lists[l], i), objs, "initialize", i)
  /\ UNCHANGED <<elList, objs>>

\* index arguments: below 0, a position, the length, past the length; or
\* only valid positions
AnyIndex(l) == (-1)..(Len(lists[l].items) + 1)
ItemIndex(l) == 0..(Len(lists[l].items) - 1)
InsertIndex(l) == 0..Len(lists[l].items)

TNext ==
  \/ \E el \in Elements : ReadTransform(el)
  \/ CreateSVGTransform
  \/ \E m \in MatrixArgs : CreateSVGTransformFromMatrix(m)
  \/ \E i \in 1..nItems : \E p \in TranslateArgs : SetTranslate(i, p[1], p[2])
  \/ \E i \in 1..nItems : \E p \in ScaleArgs : SetScale(i, p[1], p[2])
  \/ \E i \in 1..nItems : \E p \in RotateArgs : SetRotate(i, p[1], p[2], p[3])
  \/ \E i \in 1..nItems : \E m \in MatrixArgs : SetMatrix(i, m)
  \/ \E l \in 1..nLists : Consolidate(l)
  \/ \E l \in 1..nLists : Clear(l)
  \/ \E l \in 1..nLists : \E i \in 1..nItems : AppendItem(l, i)
  \/ \E l \in 1..nLists : \E i \in 1..nItems : Initialize(l, i)
  \/ \E l \in 1..nLists : \E index \in AnyIndex(l) : GetItem(l, index)
  \/ \E l \in 1..nLists : \E index \in AnyIndex(l) : RemoveItem(l, index)
  \/ \E l \in 1..nLists : \E i \in 1..nItems : \E index \in AnyIndex(l) :
       InsertItemBefore(l, i, index)
  \/ \E l \in 1..nLists : \E i \in 1..nItems : \E index \in AnyIndex(l) :
       ReplaceItem(l, i, index)

\* the same calls with every index a valid position of the list
TNextInRange ==
  \/ \E el \in Elements : ReadTransform(el)
  \/ CreateSVGTransform
  \/ \E m \in MatrixArgs : CreateSVGTransformFromMatrix(m)
  \/ \E i \in 1..nItems : \E p \in TranslateArgs : SetTranslate(i, p[1], p[2])
  \/ \E i \in 1..nItems : \E p \in ScaleArgs : SetScale(i, p[1], p[2])
  \/ \E i \in 1..nItems : \E p \in RotateArgs : SetRotate(i, p[1], p[2], p[3])
  \/ \E i \in 1..nItems : \E m \in MatrixArgs : SetMatrix(i, m)
  \/ \E l \in 1..nLists : Consolidate(l)
  \/ \E l \in 1..nLists : Clear(l)
  \/ \E l \in 1..nLists : \E i \in 1..nItems : AppendItem(l, i)
  \/ \E l \in 1..nLists : \E i \in 1..nItems : Initialize(l, i)
  \/ \E l \in 1..nLists : \E index \in ItemIndex(l) : GetItem(l, index)
  \/ \E l \in 1..nLists : \E index \in ItemIndex(l) : RemoveItem(l, index)
  \/ \E l \in 1..nLists : \E i \in 1..nItems : \E index \in InsertIndex(l) :
       InsertItemBefore(l, i, index)
  \/ \E l \in 1..nLists : \E i \in 1..nItems : \E index \in ItemIndex(l) :
       ReplaceItem(l, i, index)



\* ===================================================== the getBBox polyfill
\* A string is a sequence of one-character strings.  A JavaScript number is a
\* record: an integer (Num), another finite double (its dyadic value; only
\* text metrics produce them, and none is negative), NaN, Infinity or
\* -Infinity; reading past the end of an array gives undefined.  The sum of a
\* negative integer and such a double, and its negation, are not modelled.
Num(n) == [k |-> "num", v |-> n]
NaN == [k |-> "NaN", v |-> 0]
PosInf == [k |-> "Infinity", v |-> 0]
NegInf == [k |-> "-Infinity", v |-> 0]
Undefined == [k |-> "undefined", v |-> 0]

\* ------------------------------------------- IEEE 754 double arithmetic
\* A natural number is written in limbs of LimbBits bits, the least
\* significant first and the last one not 0; a dyadic number m * 2^e as
\* [m |-> limbs, e |-> e].
Precision == 53
LimbBits == 15
Base == 2^LimbBits

TrimLimbs(a) ==
  IF \A i \in 1..Len(a) : a[i] = 0 THEN <<>>
  ELSE SubSeq(a, 1, CHOOSE n \in 1..Len(a) : a[n] # 0 /\ \A i \in (n + 1)..Len(a) : a[i] = 0)

\* n < Base * Base
LimbsOf(n) == TrimLimbs(<<n % Base, n \div Base>>)

\* a < Base * Base
NatOf(a) ==
  CASE Len(a) = 0 -> 0
    [] Len(a) = 1 -> a[1]
    [] Len(a) = 2 -> a[1] + Base * a[2]

Limb(a, i) == IF i <= Len(a) THEN a[i] ELSE 0

\* a + b + carry, from limb i on
RECURSIVE LimbsAdd(_, _, _, _)
LimbsAdd(a, b, i, carry) ==
  IF i > Len(a) /\ i > Len(b) THEN (IF carry = 0 THEN <<>> ELSE <<carry>>)
  ELSE LET s == Limb(a, i) + Limb(b, i) + carry
       IN <<s % Base>> \o LimbsAdd(a, b, i + 1, s \div Base)

\* a - b - borrow for a >= b, from limb i on
RECURSIVE LimbsSub(_, _, _, _)
LimbsSub(a, b, i, borrow) ==
  IF i > Len(a) THEN <<>>
  ELSE LET d == Limb(a, i) - Limb(b, i) - borrow
       IN <<d % Base>> \o LimbsSub(a, b, i + 1, IF d < 0 THEN 1 ELSE 0)

\* a * n + carry for n <= Base, from limb i on
RECURSIVE LimbsTimes(_, _, _, _)
LimbsTimes(a, n, i, carry) ==
  IF i > Len(a) THEN (IF carry = 0 THEN <<>> ELSE <<carry>>)
  ELSE LET p == a[i] * n + carry
       IN <<p % Base>> \o LimbsTimes(a, n, i + 1, p \div Base)

\* a < b
LimbsLess(a, b) ==
  \/ Len(a) < Len(b)
  \/ /\ Len(a) = Len(b)
     /\ \E i \in 1..Len(a) : a[i] < b[i] /\ \A j \in (i + 1)..Len(a) : a[j] = b[j]

\* a * 2^k
ShiftLeft(a, k) ==
  IF Len(a) = 0 THEN <<>>
  ELSE [i \in 1..(k \div LimbBits) |-> 0] \o LimbsTimes(a, 2^(k % LimbBits), 1, 0)

\* a \div 2^k
ShiftRight(a, k) ==
  LET q == k \div LimbBits
      r == k % LimbBits
  IN TrimLimbs([i \in 1..(Len(a) - q) |->
                  (a[i + q] \div 2^r) + (Limb(a, i + q + 1) % 2^r) * 2^(LimbBits - r)])

\* bit i of a, from 0
Bit(a, i) == (Limb(a, i \div LimbBits + 1) \div 2^(i % LimbBits)) % 2

\* the number of bits of a
BitLength(a) ==
  IF Len(a) = 0 THEN 0
  ELSE LimbBits * (Len(a) - 1)
         + (CHOOSE k \in 1..LimbBits : 2^(k - 1) <= a[Len(a)] /\ a[Len(a)] < 2^k)

\* the bits of a below bit k are zeros
LowZeros(a, k) == \A i \in 0..(k - 1) : Bit(a, i) = 0

\* m * 2^e in its canonical form: m odd, or m and e zero
Dyadic(m, e) ==
  IF \A i \in 1..Len(m) : m[i] = 0 THEN [m |-> <<>>, e |-> 0]
  ELSE LET k == CHOOSE i \in 0..(LimbBits * Len(m)) : Bit(m, i) = 1 /\ LowZeros(m, i)
       IN [m |-> ShiftRight(m, k), e |-> e + k]

\* the limbs of x at the exponent e <= x.e
AtExponent(x, e) == ShiftLeft(x.m, x.e - e)

DyadicAdd(x, y) ==
  LET e == IF x.e < y.e THEN x.e ELSE y.e
  IN Dyadic(LimbsAdd(AtExponent(x, e), AtExponent(y, e), 1, 0), e)

DyadicLess(x, y) ==
  LET e == IF x.e < y.e THEN x.e ELSE y.e
  IN LimbsLess(AtExponent(x, e), AtExponent(y, e))

\* |x - y|
DyadicDistance(x, y) ==
  LET e == IF x.e < y.e THEN x.e ELSE y.e
      a == AtExponent(x, e)
      b == AtExponent(y, e)
  IN IF LimbsLess(a, b) THEN Dyadic(LimbsSub(b, a, 1, 0), e) ELSE Dyadic(LimbsSub(a, b, 1, 0), e)

\* x * n for a natural n <= Base
DyadicTimes(x, n) == Dyadic(LimbsTimes(x.m, n, 1, 0), x.e)

\* x rounded to Precision significant bits, to nearest, ties to even: the
\* result of every IEEE 754 operation whose exact result is x
Round(x) ==
  LET d == BitLength(x.m) - Precision
  IN IF d <= 0 THEN x
     ELSE LET kept == ShiftRight(x.m, d)
              up == Bit(x.m, d - 1) = 1 /\ (~LowZeros(x.m, d - 1) \/ Bit(kept, 0) = 1)
          IN Dyadic(IF up THEN LimbsAdd(kept, <<1>>, 1, 0) ELSE kept, x.e + d)

\* n limbs of the fraction r / den (r < den <= Base), the least significant
\* first, below them a limb that is 1 when the division leaves a remainder
RECURSIVE FractionLimbs(_, _, _)
FractionLimbs(r, den, n) ==
  IF n = 0 THEN (IF r = 0 THEN <<0>> ELSE <<1>>)
  ELSE FractionLimbs((r * Base) % den, den, n - 1) \o <<(r * Base) \div den>>

\* the double that the decimal literal num/den denotes
Literal(num, den) ==
  Round(Dyadic(FractionLimbs(num % den, den, 5) \o LimbsOf(num \div den),
               0 - 6 * LimbBits))

\* a JavaScript number that is not negative: the integers are Num(n), every
\* other double is its dyadic value
Double(x) ==
  IF x.e >= 0 THEN Num(NatOf(AtExponent(x, 0))) ELSE [k |-> "double", v |-> x]
DyadicOf(x) == IF x.k = "num" THEN Dyadic(LimbsOf(x.v), 0) ELSE x.v

\* x * y and x + y in double arithmetic, for operands that are not negative
\* (and NaN)
Times(x, y) ==
  CASE x.k = "NaN" \/ y.k = "NaN" -> NaN
    [] x.k = "num" /\ x.v >= 0 /\ y.k \in {"num", "double"} ->
         Double(Round(DyadicTimes(DyadicOf(y), x.v)))
    [] y.k = "num" /\ y.v >= 0 /\ x.k = "double" ->
         Double(Round(DyadicTimes(x.v, y.v)))
Plus(x, y) ==
  CASE x.k = "NaN" \/ y.k = "NaN" -> NaN
    [] x.k \in {"num", "double"} /\ y.k \in {"num", "double"} ->
         Double(Round(DyadicAdd(DyadicOf(x), DyadicOf(y))))

\* x < y
JsLt(x, y) ==
  CASE x.k \in {"NaN", "undefined"} \/ y.k \in {"NaN", "undefined"} -> FALSE
    [] x.k = "num" /\ y.k = "num" -> x.v < y.v
    [] x.k \in {"num", "double"} /\ y.k \in {"num", "double"} ->
         IF x.k = "num" /\ x.v < 0 THEN TRUE
         ELSE IF y.k = "num" /\ y.v < 0 THEN FALSE
         ELSE DyadicLess(DyadicOf(x), DyadicOf(y))
    [] x.k = "-Infinity" -> y.k # "-Infinity"
    [] x.k = "Infinity" -> FALSE
    [] OTHER -> y.k = "Infinity"

\* x > y
JsGt(x, y) == JsLt(y, x)

\* -x
JsNeg(x) ==
  CASE x.k = "num" -> Num(0 - x.v)
    [] x.k = "Infinity" -> NegInf
    [] x.k = "-Infinity" -> PosInf
    [] x.k \in {"NaN", "undefined"} -> NaN

\* x + y
JsAdd(x, y) ==
  CASE x.k \in {"NaN", "undefined"} \/ y.k \in {"NaN", "undefined"} -> NaN
    [] x.k = "num" /\ y.k = "num" -> Num(x.v + y.v)
    [] x.k \in {"num", "double"} /\ y.k \in {"num", "double"} ->
         (CASE (x.k = "double" \/ x.v >= 0) /\ (y.k = "double" \/ y.v >= 0) -> Plus(x, y))
    [] x.k \in {"num", "double"} -> y
    [] y.k \in {"num", "double"} -> x
    [] x.k = y.k -> x
    [] OTHER -> NaN

\* x - y
JsSub(x, y) == JsAdd(x, JsNeg(y))

\* n * x for a finite integer n > 0
JsTimes(n, x) ==
  CASE x.k = "num" -> Num(n * x.v)
    [] x.k = "undefined" -> NaN
    [] x.k \in {"NaN", "Infinity", "-Infinity"} -> x

\* Math.abs(x), Math.min(x, y)
MathAbs(x) ==
  CASE x.k = "num" -> Num(IF x.v < 0 THEN 0 - x.v ELSE x.v)
    [] x.k \in {"Infinity", "-Infinity"} -> PosInf
    [] x.k \in {"NaN", "undefined"} -> NaN
MathMin(x, y) ==
  IF x.k \in {"NaN", "undefined"} \/ y.k \in {"NaN", "undefined"} THEN NaN
  ELSE IF JsLt(y, x) THEN y ELSE x

isFinite(x) == x.k \in {"num", "double"}

Digits == {"0", "1", "2", "3", "4", "5", "6", "7", "8", "9"}
DigitValue(c) ==
  CASE c = "0" -> 0 [] c = "1" -> 1 [] c = "2" -> 2 [] c = "3" -> 3 [] c = "4" -> 4
    [] c = "5" -> 5 [] c = "6" -> 6 [] c = "7" -> 7 [] c = "8" -> 8 [] c = "9" -> 9
IsSpace(c) == c = " "

\* the value of a string of decimal digits
RECURSIVE Decimal(_)
Decimal(s) ==
  IF Len(s) = 0 THEN 0
  ELSE 10 * Decimal(SubSeq(s, 1, Len(s) - 1)) + DigitValue(s[Len(s)])

AllDigits(s) == Len(s) > 0 /\ \A i \in 1..Len(s) : s[i] \in Digits

\* String.prototype.trim
RECURSIVE TrimStart(_)
TrimStart(s) == IF Len(s) > 0 /\ IsSpace(s[1]) THEN TrimStart(Tail(s)) ELSE s
RECURSIVE TrimEnd(_)
TrimEnd(s) ==
  IF Len(s) > 0 /\ IsSpace(s[Len(s)]) THEN TrimEnd(SubSeq(s, 1, Len(s) - 1)) ELSE s
trim(s) == TrimEnd(TrimStart(s))

\* the longest prefix of decimal digits
RECURSIVE DigitPrefix(_)
DigitPrefix(s) ==
  IF Len(s) > 0 /\ s[1] \in Digits THEN <<s[1]>> \o DigitPrefix(Tail(s)) ELSE <<>>

\* Number(s) of a string without white space: the empty string is 0, a signed
\* decimal literal its value, anything else NaN.  (A literal with a fraction
\* other than zeros has no integer value and is left out.)
Number(s) ==
  LET neg == Len(s) > 0 /\ s[1] = "-"
      u == IF neg THEN Tail(s) ELSE s
      ip == DigitPrefix(u)
      after == SubSeq(u, Len(ip) + 1, Len(u))
      dot == Len(after) > 0 /\ after[1] = "."
      fp == IF dot THEN Tail(after) ELSE <<>>
      literal == \/ Len(after) = 0 /\ Len(ip) > 0
                 \/ dot /\ (Len(fp) = 0 \/ AllDigits(fp)) /\ Len(ip) + Len(fp) > 0
  IN IF Len(s) = 0 THEN Num(0)
     ELSE IF ~literal THEN NaN
     ELSE CASE \A i \in 1..Len(fp) : fp[i] = "0" ->
                 Num(IF neg THEN 0 - Decimal(ip) ELSE Decimal(ip))

\* parseFloat(s): leading white space is skipped, the longest prefix that is a
\* signed decimal literal is converted, NaN when there is none.  (A literal
\* with a fraction other than zeros has no integer value and is left out.)
parseFloat(s) ==
  LET t == TrimStart(s)
      neg == Len(t) > 0 /\ t[1] = "-"
      u == IF neg THEN Tail(t) ELSE t
      digits == DigitPrefix(u)
      after == SubSeq(u, Len(digits) + 1, Len(u))
      fraction == IF Len(after) > 0 /\ after[1] = "." THEN DigitPrefix(Tail(after)) ELSE <<>>
  IN IF Len(digits) + Len(fraction) = 0 THEN NaN
     ELSE CASE \A i \in 1..Len(fraction) : fraction[i] = "0" ->
                 Num(IF neg THEN 0 - Decimal(digits) ELSE Decimal(digits))

\* s.split(/[\s,]+/)
IsSeparator(c) == IsSpace(c) \/ c = ","
RECURSIVE DropSeparators(_)
DropSeparators(s) ==
  IF Len(s) > 0 /\ IsSeparator(s[1]) THEN DropSeparators(Tail(s)) ELSE s
RECURSIVE split(_)
split(s) ==
  IF Len(s) = 0 THEN << <<>> >>
  ELSE IF IsSeparator(s[1]) THEN << <<>> >> \o split(DropSeparators(s))
  ELSE LET rest == split(Tail(s))
       IN << <<s[1]>> \o rest[1] >> \o Tail(rest)

\* an element: tagName ("" for a node without one, a text node), attributes
\* (only those present), child nodes; a text node has its characters as data
Element(tagName, attrs, childNodes) ==
  [tagName |-> tagName, attrs |-> attrs, childNodes |-> childNodes, data |-> <<>>]
TextNode(data) == [Element("", <<>>, <<>>) EXCEPT !.data = data]

\* el.getAttribute(name) || dflt : null and "" both give dflt
AttributeOr(el, name, dflt) ==
  IF name \in DOMAIN el.attrs /\ Len(el.attrs[name]) > 0 THEN el.attrs[name] ELSE dflt

\* what a bbox function returns: obj tells which object it is.  "new" is an
\* object literal evaluated by the call, "EMPTY" the module's constant object,
\* "element" the argument itself; "TypeError" stands for a call that throws.
BBox(x, y, width, height) ==
  [obj |-> "new", x |-> x, y |-> y, width |-> width, height |-> height]

\* const EMPTY = { x: 0, y: 0, width: 0, height: 0 } when the module is loaded
EmptyLiteral == [BBox(Num(0), Num(0), Num(0), Num(0)) EXCEPT !.obj = "EMPTY"]

\* the EMPTY object as it is now: it is not frozen, and whoever was handed it
\* can assign its fields
EMPTY == empty

\* an SVG element used as a box: it has no x, y, width, height properties
ElementItself ==
  [obj |-> "element", x |-> Undefined, y |-> Undefined, width |-> Undefined,
   height |-> Undefined]

\* calling a value that is not a function
TypeError ==
  [obj |-> "TypeError", x |-> Undefined, y |-> Undefined, width |-> Undefined,
   height |-> Undefined]

attr(el, name) == parseFloat(AttributeOr(el, name, <<"0">>))

\* ------------------------------------------------------------- text metrics
LINE_HEIGHT == 14
DEFAULT_WRAP_WIDTH == 90
\* 0.55
DEFAULT_CHAR_RATIO == Double(Literal(55, 100))

\* the table of ratios, in thousandths as the literals are written
ARIAL_CHAR_RATIOS ==
  (" " :> 278) @@ ("!" :> 278) @@ ("\"" :> 355) @@ ("#" :> 556) @@ ("$" :> 556) @@ ("%" :> 889)
    @@ ("&" :> 667) @@ ("'" :> 191) @@ ("(" :> 333) @@ (")" :> 333) @@ ("*" :> 389) @@ ("+" :> 584)
    @@ ("," :> 278) @@ ("-" :> 333) @@ ("." :> 278) @@ ("/" :> 278) @@ ("0" :> 556) @@ ("1" :> 556)
    @@ ("2" :> 556) @@ ("3" :> 556) @@ ("4" :> 556) @@ ("5" :> 556) @@ ("6" :> 556) @@ ("7" :> 556)
    @@ ("8" :> 556) @@ ("9" :> 556) @@ (":" :> 278) @@ (";" :> 278) @@ ("<" :> 584) @@ ("=" :> 584)
    @@ (">" :> 584) @@ ("?" :> 556) @@ ("@" :> 1015) @@ ("A" :> 667) @@ ("B" :> 667) @@ ("C" :> 722)
    @@ ("D" :> 722) @@ ("E" :> 667) @@ ("F" :> 611) @@ ("G" :> 778) @@ ("H" :> 722) @@ ("I" :> 278)
    @@ ("J" :> 500) @@ ("K" :> 667) @@ ("L" :> 556) @@ ("M" :> 833) @@ ("N" :> 722) @@ ("O" :> 778)
    @@ ("P" :> 667) @@ ("Q" :> 778) @@ ("R" :> 722) @@ ("S" :> 667) @@ ("T" :> 611) @@ ("U" :> 722)
    @@ ("V" :> 667) @@ ("W" :> 944) @@ ("X" :> 667) @@ ("Y" :> 667) @@ ("Z" :> 611) @@ ("a" :> 556)
    @@ ("b" :> 556) @@ ("c" :> 500) @@ ("d" :> 556) @@ ("e" :> 556) @@ ("f" :> 278) @@ ("g" :> 556)
    @@ ("h" :> 556) @@ ("i" :> 222) @@ ("j" :> 222) @@ ("k" :> 500) @@ ("l" :> 222) @@ ("m" :> 833)
    @@ ("n" :> 556) @@ ("o" :> 556) @@ ("p" :> 556) @@ ("q" :> 556) @@ ("r" :> 333) @@ ("s" :> 500)
    @@ ("t" :> 278) @@ ("u" :> 556) @@ ("v" :> 500) @@ ("w" :> 722) @@ ("x" :> 500) @@ ("y" :> 500)
    @@ ("z" :> 500)

\* ARIAL_CHAR_RATIOS[ch] ?? DEFAULT_CHAR_RATIO
CharRatio(ch) ==
  IF ch \in DOMAIN ARIAL_CHAR_RATIOS THEN Double(Literal(ARIAL_CHAR_RATIOS[ch], 1000))
  ELSE DEFAULT_CHAR_RATIO

\* the loop of measureText from character i on: width += ratio * fontSize
RECURSIVE MeasureLoop(_, _, _, _)
MeasureLoop(text, fontSize, i, width) ==
  IF i > Len(text) THEN width
  ELSE MeasureLoop(text, fontSize, i + 1, Plus(width, Times(CharRatio(text[i]), fontSize)))

measureText(text, fontSize) == MeasureLoop(text, fontSize, 1, Num(0))

\* c.toLowerCase() of a letter, as the i flag of a regular expression compares
UpperCaseLetters ==
  <<"A", "B", "C", "D", "E", "F", "G", "H", "I", "J", "K", "L", "M",
    "N", "O", "P", "Q", "R", "S", "T", "U", "V", "W", "X", "Y", "Z">>
LowerCaseLetters ==
  <<"a", "b", "c", "d", "e", "f", "g", "h", "i", "j", "k", "l", "m",
    "n", "o", "p", "q", "r", "s", "t", "u", "v", "w", "x", "y", "z">>
LowerCase(c) ==
  IF \E i \in 1..26 : UpperCaseLetters[i] = c
  THEN LowerCaseLetters[CHOOSE i \in 1..26 : UpperCaseLetters[i] = c]
  ELSE c

\* word stands in s at position i, letter case ignored
StandsAt(s, i, word) ==
  /\ i + Len(word) - 1 <= Len(s)
  /\ \A j \in 1..Len(word) : LowerCase(s[i + j - 1]) = word[j]

\* the longest prefix of characters of [\d.]
RECURSIVE DigitsAndDots(_)
DigitsAndDots(s) ==
  IF Len(s) > 0 /\ (s[1] \in Digits \/ s[1] = ".")
  THEN <<s[1]>> \o DigitsAndDots(Tail(s)) ELSE <<>>

\* /font-size:\s*([\d.]+)px/i tried at position i of s: the group, <<>> when
\* the expression does not match there
FontSizeAt(s, i) ==
  LET value == TrimStart(SubSeq(s, i + 10, Len(s)))
      group == DigitsAndDots(value)
  IN IF /\ StandsAt(s, i, <<"f", "o", "n", "t", "-", "s", "i", "z", "e", ":">>)
        /\ Len(group) > 0
        /\ StandsAt(value, Len(group) + 1, <<"p", "x">>)
     THEN group ELSE <<>>

\* style.match(/font-size:\s*([\d.]+)px/i): m[1] of the leftmost match, <<>>
\* for null
FontSizeMatch(s) ==
  LET at == {i \in 1..Len(s) : Len(FontSizeAt(s, i)) > 0}
  IN IF at = {} THEN <<>>
     ELSE FontSizeAt(s, CHOOSE i \in at : \A j \in at : i <= j)

parseFontSize(el) ==
  LET m == FontSizeMatch(AttributeOr(el, "style", <<>>))
  IN IF Len(m) > 0 THEN parseFloat(m)
     ELSE parseFloat(AttributeOr(el, "font-size", <<"1", "2">>))

\* el.textContent: the data of the text nodes below el, in document order
RECURSIVE textContent(_)
RECURSIVE ContentOf(_, _)
ContentOf(children, i) ==
  IF i > Len(children) THEN <<>>
  ELSE textContent(children[i]) \o ContentOf(children, i + 1)
textContent(el) == IF el.tagName = "" THEN el.data ELSE ContentOf(el.childNodes, 1)

\* el.querySelectorAll('tspan').length: the tspan elements below el
RECURSIVE TspansBelow(_)
RECURSIVE TspansIn(_, _)
TspansIn(children, i) ==
  IF i > Len(children) THEN 0
  ELSE (IF children[i].tagName = "tspan" THEN 1 ELSE 0)
         + TspansBelow(children[i]) + TspansIn(children, i + 1)
TspansBelow(el) == TspansIn(el.childNodes, 1)

polyfillGetComputedTextLength(el) == measureText(textContent(el), parseFontSize(el))

bboxText(el) ==
  LET fontSize == parseFontSize(el)
      x == attr(el, "x")
      y == attr(el, "y")
      tspans == TspansBelow(el)
  IN IF tspans > 1
     THEN BBox(x, JsSub(y, fontSize), Num(DEFAULT_WRAP_WIDTH), Num(tspans * LINE_HEIGHT))
     ELSE BBox(x, JsSub(y, fontSize),
               measureText(textContent(el), fontSize), Times(fontSize, Double(Literal(12, 10))))

bboxRect(el) == BBox(attr(el, "x"), attr(el, "y"), attr(el, "width"), attr(el, "height"))

bboxCircle(el) ==
  LET cx == attr(el, "cx")
      cy == attr(el, "cy")
      r == attr(el, "r")
  IN BBox(JsSub(cx, r), JsSub(cy, r), JsTimes(2, r), JsTimes(2, r))

bboxEllipse(el) ==
  LET cx == attr(el, "cx")
      cy == attr(el, "cy")
      rx == attr(el, "rx")
      ry == attr(el, "ry")
  IN BBox(JsSub(cx, rx), JsSub(cy, ry), JsTimes(2, rx), JsTimes(2, ry))

bboxLine(el) ==
  LET x1 == attr(el, "x1")
      y1 == attr(el, "y1")
      x2 == attr(el, "x2")
      y2 == attr(el, "y2")
  IN BBox(MathMin(x1, x2), MathMin(y1, y2), MathAbs(JsSub(x2, x1)), MathAbs(JsSub(y2, y1)))

\* the running extents of a min/max loop
\* (threw: the loop was left by an exception)
Extents(minX, minY, maxX, maxY) ==
  [minX |-> minX, minY |-> minY, maxX |-> maxX, maxY |-> maxY, threw |-> FALSE]
NoExtents == Extents(PosInf, PosInf, NegInf, NegInf)

\* the return statement shared by bboxPolygon, bboxPath and bboxGroup
BoxOfExtents(e) ==
  IF e.threw THEN TypeError
  ELSE IF isFinite(e.minX)
  THEN BBox(e.minX, e.minY, JsSub(e.maxX, e.minX), JsSub(e.maxY, e.minY))
  ELSE EMPTY

\* coords[i] of a JavaScript array, i from 0
At(coords, i) == IF i < Len(coords) THEN coords[i + 1] ELSE Undefined

\* the loop of bboxPolygon from index i on: for (; i < coords.length; i += 2)
RECURSIVE PolygonLoop(_, _, _)
PolygonLoop(coords, i, e) ==
  IF i >= Len(coords) THEN e
  ELSE LET x == At(coords, i)
           y == At(coords, i + 1)
       IN PolygonLoop(coords, i + 2,
            Extents(IF JsLt(x, e.minX) THEN x ELSE e.minX,
                    IF JsLt(y, e.minY) THEN y ELSE e.minY,
                    IF JsGt(x, e.maxX) THEN x ELSE e.maxX,
                    IF JsGt(y, e.maxY) THEN y ELSE e.maxY))

\* (el.getAttribute('points') || '').trim().split(/[\s,]+/).map(Number)
PolygonCoords(el) ==
  LET tokens == split(trim(AttributeOr(el, "points", <<>>)))
  IN [j \in 1..Len(tokens) |-> Number(tokens[j])]

\* (mutation) the extents start at the origin
bboxPolygonFromOrigin(el) ==
  BoxOfExtents(PolygonLoop(PolygonCoords(el), 0, Extents(Num(0), Num(0), Num(0), Num(0))))

bboxPolygon(el) == BoxOfExtents(PolygonLoop(PolygonCoords(el), 0, NoExtents))

\* s.match(/-?\d+\.?\d*/g): the matches from left to right (<<>> for null)
RECURSIVE match(_)
match(s) ==
  IF Len(s) = 0 THEN <<>>
  ELSE LET sign == IF s[1] = "-" THEN 1 ELSE 0
           body == SubSeq(s, sign + 1, Len(s))
           digits == DigitPrefix(body)
           after == SubSeq(body, Len(digits) + 1, Len(body))
           dot == IF Len(after) > 0 /\ after[1] = "." THEN 1 ELSE 0
           fraction == IF dot = 1 THEN DigitPrefix(Tail(after)) ELSE <<>>
           n == sign + Len(digits) + dot + Len(fraction)
       IN IF Len(digits) = 0 THEN match(Tail(s))
          ELSE <<SubSeq(s, 1, n)>> \o match(SubSeq(s, n + 1, Len(s)))

\* the loop of bboxPath from index i on: for (; i < nums.length - 1; i += 2)
RECURSIVE PathLoop(_, _, _)
PathLoop(nums, i, e) ==
  IF i >= Len(nums) - 1 THEN e
  ELSE LET x == Number(nums[i + 1])
           y == Number(nums[i + 2])
       IN PathLoop(nums, i + 2,
            Extents(IF JsLt(x, e.minX) THEN x ELSE e.minX,
                    IF JsLt(y, e.minY) THEN y ELSE e.minY,
                    IF JsGt(x, e.maxX) THEN x ELSE e.maxX,
                    IF JsGt(y, e.maxY) THEN y ELSE e.maxY))

bboxPath(el) ==
  LET nums == match(AttributeOr(el, "d", <<>>))
  IN IF Len(nums) < 2 THEN EMPTY
     ELSE BoxOfExtents(PathLoop(nums, 0, NoExtents))

\* one turn of the loop of bboxGroup on the box b of a child with a tagName
GroupStep(e, b) ==
  IF b.width = Num(0) /\ b.height = Num(0) THEN e
  ELSE Extents(IF JsLt(b.x, e.minX) THEN b.x ELSE e.minX,
               IF JsLt(b.y, e.minY) THEN b.y ELSE e.minY,
               IF JsGt(JsAdd(b.x, b.width), e.maxX) THEN JsAdd(b.x, b.width) ELSE e.maxX,
               IF JsGt(JsAdd(b.y, b.height), e.maxY) THEN JsAdd(b.y, b.height) ELSE e.maxY)

\* tagName.toLowerCase() on the tag names used here
toLowerCase(tagName) ==
  CASE tagName \in {"RECT", "Rect"} -> "rect"
    [] tagName = "CIRCLE" -> "circle"
    [] tagName = "Ellipse" -> "ellipse"
    [] tagName = "LINE" -> "line"
    [] tagName = "POLYGON" -> "polygon"
    [] tagName = "PolyLine" -> "polyline"
    [] tagName = "PATH" -> "path"
    [] tagName = "G" -> "g"
    [] tagName = "SVG" -> "svg"
    [] tagName = "DEFS" -> "defs"
    [] tagName = "Constructor" -> "constructor"
    [] OTHER -> tagName

\* BBOX_BY_TAG and polyfillGetBBox; bboxGroup calls polyfillGetBBox on the
\* children.  BBOX_BY_TAG is an object literal, so a lookup also finds what
\* Object.prototype holds
\* under a lower-case name: constructor is the function Object, which returns
\* its argument, and __proto__ is Object.prototype, which cannot be called.
RECURSIVE polyfillGetBBox(_)
RECURSIVE GroupLoop(_, _, _)
GroupLoop(children, i, e) ==
  IF i > Len(children) THEN e
  ELSE IF children[i].tagName = "" THEN GroupLoop(children, i + 1, e)
  ELSE LET b == polyfillGetBBox(children[i])
       IN IF b.obj = "TypeError" THEN [e EXCEPT !.threw = TRUE]
          ELSE GroupLoop(children, i + 1, GroupStep(e, b))

bboxGroup(el) == BoxOfExtents(GroupLoop(el.childNodes, 1, NoExtents))

polyfillGetBBox(el) ==
  LET tag == toLowerCase(el.tagName)
  IN CASE tag = "rect" -> bboxRect(el)
       [] tag = "circle" -> bboxCircle(el)
       [] tag = "ellipse" -> bboxEllipse(el)
       [] tag = "line" -> bboxLine(el)
       [] tag \in {"polygon", "polyline"} -> bboxPolygon(el)
       [] tag = "path" -> bboxPath(el)
       [] tag \in {"g", "svg"} -> bboxGroup(el)
       [] tag = "constructor" -> ElementItself
       [] tag = "__proto__" -> TypeError
       [] tag \in {"text", "tspan"} -> bboxText(el)
       [] OTHER -> EMPTY

\* ------------------------------------------------------ getBBox: the inputs
MaxCoords == 4
MaxChildren == 2

\* no attribute of that name
Missing == <<"null">>

\* values of a geometry attribute
AttrValues == {Missing, <<>>, <<"5">>, <<"1", "2">>, <<"-", "3">>, <<"a">>, <<" ", "7">>}

\* the attributes of an element, given a value or Missing for each name
Attrs(f) == [n \in {m \in DOMAIN f : f[m] # Missing} |-> f[n]]

Shape(tagName, names) ==
  {Element(tagName, Attrs(f), <<>>) : f \in [names -> AttrValues]}

Shapes ==
  Shape("rect", {"x", "y", "width", "height"})
    \cup Shape("circle", {"cx", "cy", "r"})
    \cup Shape("ellipse", {"cx", "cy", "rx", "ry"})
    \cup Shape("line", {"x1", "y1", "x2", "y2"})

RECURSIVE Join2(_, _)
Join2(tokens, sep) ==
  IF Len(tokens) = 0 THEN <<>>
  ELSE IF Len(tokens) = 1 THEN tokens[1]
  ELSE tokens[1] \o sep \o Join2(Tail(tokens), sep)

\* values of a points attribute: up to MaxCoords numbers and words, separated
\* by white space and commas, with and without white space around
PointTokens == {<<"1">>, <<"7">>, <<"-", "3">>, <<"a">>}
PointSeparators == {<<" ">>, <<",">>, <<",", " ">>}
PointLists == UNION {[1..n -> PointTokens] : n \in 0..MaxCoords}
PointValues ==
  {Missing}
    \cup {Join2(t, sep) : t \in PointLists, sep \in PointSeparators}
    \cup {<<" ">> \o Join2(t, sep) \o <<" ">> : t \in PointLists, sep \in PointSeparators}

Polygons ==
  {Element(tagName, Attrs([n \in {"points"} |-> p]), <<>>) :
     tagName \in {"polygon", "polyline"}, p \in PointValues}

Rect(x, y, width, height) ==
  Element("rect", [n \in {"x", "y", "width", "height"} |->
                     CASE n = "x" -> x [] n = "y" -> y [] n = "width" -> width
                       [] n = "height" -> height], <<>>)

\* child nodes: shapes, a text node, elements without geometry, nested groups
ChildNodes ==
  { Rect(<<"1">>, <<"2">>, <<"5">>, <<"7">>),
    Rect(<<"1", "2">>, <<"-", "3">>, <<"5">>, <<"5">>),
    Rect(<<"5">>, <<"5">>, <<"0">>, <<"0">>),
    Rect(<<"a">>, <<"0">>, <<"5">>, <<"5">>),
    Rect(<<"2", "0">>, <<"0">>, <<"-", "6">>, <<"5">>),
    Element("line", Attrs([n \in {"x1", "x2", "y2"} |-> IF n = "y2" THEN <<"7">> ELSE <<"5">>]), <<>>),
    Element("circle", Attrs([n \in {"cx", "cy", "r"} |-> <<"5">>]), <<>>),
    Element("polygon", Attrs([n \in {"points"} |-> <<"1", ",", "2", " ", "7", ",", "1", "2">>]), <<>>),
    Element("polygon", Attrs([n \in {"points"} |-> <<>>]), <<>>),
    Element("", <<>>, <<>>),
    Element("defs", <<>>, <<Rect(<<"1">>, <<"2">>, <<"5">>, <<"7">>)>>),
    Element("g", <<>>, <<>>),
    Element("G", <<>>, <<Rect(<<"-", "3">>, <<"1">>, <<"5">>, <<"5">>)>>) }

Groups ==
  {Element(tagName, <<>>, c) :
     tagName \in {"g", "svg"}, c \in UNION {[1..n -> ChildNodes] : n \in 0..MaxChildren}}

\* values of a d attribute: up to MaxCoords numbers behind the command letters
\* M and L, with and without a closing Z; and data without any number
PathNumbers == {<<"1">>, <<"7">>, <<"-", "3">>, <<"1", "2">>}
PathLists == UNION {[1..n -> PathNumbers] : n \in 0..MaxCoords}

RECURSIVE PathData(_, _, _)
PathData(numbers, k, sep) ==
  IF k > Len(numbers) THEN <<>>
  ELSE (IF k = 1 THEN <<"M">> ELSE IF k % 2 = 1 THEN <<"L">> ELSE sep)
         \o numbers[k] \o PathData(numbers, k + 1, sep)

\* (and coordinates in exponent notation, as JavaScript prints small and
\* large numbers)
PathValues ==
  {Missing, <<>>, <<"Z">>, <<"M", "-">>, <<"M", "5", ".", " ", "2", ".", "0">>,
   <<"M", "1", "e", "2", " ", "5">>,
   <<"M", "1", "e", "2", " ", "5", "L", "3", " ", "4">>}
    \cup {PathData(t, 1, sep) \o z : t \in PathLists, sep \in {<<" ">>, <<",">>},
                                       z \in {<<>>, <<"Z">>}}

Paths == {Element("path", Attrs([n \in {"d"} |-> p]), <<>>) : p \in PathValues}

\* tag names: the supported ones, other spellings of them, and others
TagNames ==
  {"rect", "circle", "ellipse", "line", "polygon", "polyline", "path", "g", "svg",
   "RECT", "Rect", "CIRCLE", "Ellipse", "LINE", "POLYGON", "PolyLine", "PATH", "G", "SVG",
   "defs", "DEFS", "a", "title", "", "constructor", "Constructor", "__proto__"}

\* one element of each tag name, with every geometry attribute and a child
GeometryAttrs ==
  [n \in {"x", "y", "width", "height", "cx", "cy", "r", "rx", "ry", "x1", "y1", "x2",
          "y2", "points", "d"} |->
     CASE n \in {"x", "cx", "x1"} -> <<"1">>
       [] n \in {"y", "cy", "y1"} -> <<"2">>
       [] n \in {"width", "r", "rx", "x2"} -> <<"5">>
       [] n \in {"height", "ry", "y2"} -> <<"7">>
       [] n = "points" -> <<"1", ",", "2", " ", "7", ",", "1", "2">>
       [] n = "d" -> <<"M", "1", " ", "2", "L", "7", " ", "1", "2">>]

Tagged ==
  {Element(t, GeometryAttrs, <<Rect(<<"1">>, <<"2">>, <<"5">>, <<"7">>)>>) : t \in TagNames}

\* text and tspan elements: a style with and without a font-size declaration,
\* a font-size attribute, a position, and text in text nodes and tspans
StyleValues ==
  {Missing, <<"f", "o", "n", "t", "-", "s", "i", "z", "e", ":", "1", "4", "p", "x">>,
   <<"f", "i", "l", "l", ":", "r", "e", "d", ";", " ", "f", "o", "n", "t", "-", "s", "i", "z", "e", ":", " ", "9", "p", "x">>,
   <<"F", "O", "N", "T", "-", "S", "I", "Z", "E", ":", "1", "4", "P", "X">>,
   <<"f", "o", "n", "t", "-", "s", "i", "z", "e", ":", ".", "p", "x">>,
   <<"f", "o", "n", "t", "-", "s", "i", "z", "e", ":", "1", "4", "p", "t">>}
FontSizeValues == {Missing, <<>>, <<"1", "0">>, <<"l", "a", "r", "g", "e">>}
Tspan(children) == Element("tspan", <<>>, children)
TextChildren ==
  { <<>>,
    <<TextNode(<<"i", "i", " ">>)>>,
    <<TextNode(<<" ", "i", "i">>)>>,
    <<TextNode(<<"J", "~">>), Element("title", <<>>, <<TextNode(<<"a">>)>>)>>,
    <<Tspan(<<TextNode(<<"a", "@", "i">>)>>)>>,
    <<Tspan(<<TextNode(<<"i", "@">>)>>), Tspan(<<TextNode(<<"a">>)>>)>>,
    <<Tspan(<<TextNode(<<"a">>), Tspan(<<TextNode(<<"@", "i">>)>>)>>)>>,
    <<Tspan(<<>>), TextNode(<<"W">>), Tspan(<<>>), Tspan(<<>>)>> }
Texts ==
  {Element(tagName, Attrs([n \in {"style", "font-size", "x", "y"} |->
                             CASE n = "style" -> style [] n = "font-size" -> size
                               [] n = "x" -> x [] n = "y" -> y]), children) :
     tagName \in {"text", "tspan"}, style \in StyleValues, size \in FontSizeValues,
     x \in {Missing, <<"5">>}, y \in {Missing, <<"2", "0">>}, children \in TextChildren}

\* ------------------------------------------------------- the diagram store
\* A DiagramState object is states[s]; its modeler field is an index into
\* modelers, 0 when the state has none.  The Map `diagrams` is the sequence of
\* its entries in insertion order; the WeakMap `modelerToDiagramId` is a
\* function on the modelers that are keys.  A world is the four together.
World ==
  [diagrams |-> diagrams, modelerToDiagramId |-> modelerToDiagramId,
   states |-> states, modelers |-> modelers]

\* what get returns for a key that is not there
UndefinedId == "undefined"
UndefinedState == 0

MapSet(f, k, v) == [x \in DOMAIN f \cup {k} |-> IF x = k THEN v ELSE f[x]]
MapDelete(f, k) == [x \in DOMAIN f \ {k} |-> f[x]]

\* the position of id's entry in the Map, 0 without one
EntryOf(w, id) ==
  IF \E i \in 1..Len(w.diagrams) : w.diagrams[i].id = id
  THEN CHOOSE i \in 1..Len(w.diagrams) : w.diagrams[i].id = id
  ELSE 0

getDiagram(w, id) ==
  IF EntryOf(w, id) = 0 THEN UndefinedState ELSE w.diagrams[EntryOf(w, id)].state

storeDiagram(w, id, s) ==
  [w EXCEPT !.diagrams =
                IF EntryOf(w, id) = 0 THEN Append(@, [id |-> id, state |-> s])
                ELSE [@ EXCEPT ![EntryOf(w, id)].state = s],
            !.modelerToDiagramId =
                IF w.states[s].modeler # 0 THEN MapSet(@, w.states[s].modeler, id)
                ELSE @]

Without(entries, i) == SubSeq(entries, 1, i - 1) \o SubSeq(entries, i + 1, Len(entries))

\* the world after the call, and what the call returns
deleteDiagram(w, id) ==
  LET state == getDiagram(w, id)
      m == IF state = UndefinedState THEN 0 ELSE w.states[state].modeler
  IN [w |-> [w EXCEPT !.modelerToDiagramId = IF m # 0 THEN MapDelete(@, m) ELSE @,
                      !.diagrams = IF state = UndefinedState THEN @
                                   ELSE Without(@, EntryOf(w, id))],
      ret |-> state # UndefinedState]

getDiagramId(w, diagram) ==
  LET m == w.states[diagram].modeler
      found == {i \in 1..Len(w.diagrams) : w.diagrams[i].state = diagram}
  IN IF m # 0 /\ m \in DOMAIN w.modelerToDiagramId THEN w.modelerToDiagramId[m]
     ELSE IF found # {}
          THEN w.diagrams[CHOOSE i \in found : \A j \in found : i <= j].id
          ELSE UndefinedId

clearDiagrams(w) == [w EXCEPT !.diagrams = <<>>]

\* --------------------------------------------------- the command stack
\* A modeler object holds the active viewer's content (the x of the shape of
\* Decision_1, the name of the decision, the number of rules of its table)
\* and that viewer's command stack: _stack is stack, _stackIdx is stackIdx,
\* -1 on an empty stack, so that _stack[_stackIdx] is stack[stackIdx + 1].
canUndo(m) == m.stackIdx >= 0
canRedo(m) == m.stackIdx + 1 < Len(m.stack)

Applied(m, command, value) ==
  IF command.command = "elements.move" THEN [m EXCEPT !.x = value]
  ELSE [m EXCEPT !.name = value]

undo(m) ==
  IF canUndo(m)
  THEN [Applied(m, m.stack[m.stackIdx + 1], m.stack[m.stackIdx + 1].old)
          EXCEPT !.stackIdx = @ - 1]
  ELSE m

redo(m) ==
  IF canRedo(m)
  THEN [Applied(m, m.stack[m.stackIdx + 2], m.stack[m.stackIdx + 2].new)
          EXCEPT !.stackIdx = @ + 1]
  ELSE m

\* the commands that were undone are dropped, the new one is pushed and run
execute(m, command) ==
  [Applied(m, command, command.new)
     EXCEPT !.stack = Append(SubSeq(m.stack, 1, m.stackIdx + 1), command),
            !.stackIdx = @ + 1]

\* modeling.moveElements([element], delta)
moveElements(m, x) == execute(m, [command |-> "elements.move", old |-> m.x, new |-> x])

\* modeling.updateProperties(decision, { name })
updateProperties(m, name) ==
  execute(m, [command |-> "element.updateProperties", old |-> m.name, new |-> name])

\* the modeler after importXML(INITIAL_XML)
createModeler ==
  [x |-> 160, name |-> "Decision 1", rules |-> 0, stack |-> <<>>, stackIdx |-> -1]

saveXML(m) == [x |-> m.x, name |-> m.name, rules |-> m.rules]

\* diagram.xml = (await diagram.modeler.saveXML()).xml
syncXml(w, diagram) ==
  [w EXCEPT !.states[diagram].xml = saveXML(w.modelers[w.states[diagram].modeler])]

\* ----------------------------------------------------------- the tools
\* A handler takes the world and its arguments (a record with the fields
\* that were passed) and gives the world after the call, whether it threw,
\* and the parsed result or the error.
Has(args, key) == key \in DOMAIN args

Threw(w, error) == [w |-> w, thrown |-> TRUE, result |-> [error |-> error]]
Returned(w, result) == [w |-> w, thrown |-> FALSE, result |-> result]

generateDiagramId(w) == "diagram_" \o ToString(Len(w.states) + 1)

createBlankModeler(args) ==
  IF Has(args, "name") THEN updateProperties(createModeler, args.name) ELSE createModeler

handleCreateDiagram(w, args) ==
  LET modeler == createBlankModeler(args)
      diagramId == generateDiagramId(w)
      diagram == [modeler |-> Len(w.modelers) + 1, xml |-> saveXML(modeler)]
      allocated == [w EXCEPT !.modelers = Append(@, modeler), !.states = Append(@, diagram)]
  IN Returned(storeDiagram(allocated, diagramId, Len(w.states) + 1),
              [success |-> TRUE, diagramId |-> diagramId])

handleDeleteDiagram(w, args) ==
  IF ~Has(args, "diagramId") THEN Threw(w, "Missing required")
  ELSE IF ~deleteDiagram(w, args.diagramId).ret THEN Threw(w, "Diagram not found")
  ELSE Returned(deleteDiagram(w, args.diagramId).w,
                [success |-> TRUE, diagramId |-> args.diagramId])

\* the elements of the registry of the DRD viewer
ElementIds == {"Decision_1"}

handleMoveElement(w, args) ==
  IF ~Has(args, "diagramId") \/ ~Has(args, "elementId") THEN Threw(w, "Missing required")
  ELSE IF ~Has(args, "x") THEN Threw(w, "At least one of x or y must be provided.")
  ELSE IF getDiagram(w, args.diagramId) = UndefinedState THEN Threw(w, "Diagram not found")
  ELSE IF args.elementId \notin ElementIds THEN Threw(w, "Element not found")
  ELSE LET diagram == getDiagram(w, args.diagramId)
           m == w.states[diagram].modeler
           deltaX == args.x - w.modelers[m].x
           moved == IF 2 * (IF deltaX < 0 THEN -deltaX ELSE deltaX) > 1
                    THEN [w EXCEPT !.modelers[m] = moveElements(@, args.x)]
                    ELSE w
       IN Returned(syncXml(moved, diagram),
                   [success |-> TRUE, elementId |-> args.elementId, x |-> args.x])

\* the rule is pushed onto the rule array of the table, past the command stack
handleAddRule(w, args) ==
  IF ~Has(args, "diagramId") \/ ~Has(args, "decisionId") THEN Threw(w, "Missing required")
  ELSE IF getDiagram(w, args.diagramId) = UndefinedState THEN Threw(w, "Diagram not found")
  ELSE IF args.decisionId \notin ElementIds THEN Threw(w, "Element not found")
  ELSE LET diagram == getDiagram(w, args.diagramId)
           m == w.states[diagram].modeler
           pushed == [w EXCEPT !.modelers[m].rules = @ + 1]
       IN Returned(syncXml(pushed, diagram),
                   [success |-> TRUE, decisionId |-> args.decisionId,
                    ruleCount |-> pushed.modelers[m].rules])

\* (mutation) the loop does not ask whether a step can be done
RECURSIVE performStepsUnasked(_, _, _, _, _)
performStepsUnasked(commandStack, isUndo, steps, i, performed) ==
  IF ~(i < steps) THEN [m |-> commandStack, performed |-> performed]
  ELSE performStepsUnasked(IF isUndo THEN undo(commandStack) ELSE redo(commandStack),
                           isUndo, steps, i + 1, performed + 1)

\* the modeler after the loop from i on, and the steps performed
RECURSIVE performSteps(_, _, _, _, _)
performSteps(commandStack, isUndo, steps, i, performed) ==
  IF ~(i < steps) THEN [m |-> commandStack, performed |-> performed]
  ELSE IF ~(IF isUndo THEN canUndo(commandStack) ELSE canRedo(commandStack))
  THEN [m |-> commandStack, performed |-> performed]
  ELSE performSteps(IF isUndo THEN undo(commandStack) ELSE redo(commandStack),
                    isUndo, steps, i + 1, performed + 1)

handleDmnHistory(w, args) ==
  IF ~Has(args, "diagramId") \/ ~Has(args, "action") THEN Threw(w, "Missing required")
  ELSE IF getDiagram(w, args.diagramId) = UndefinedState THEN Threw(w, "Diagram not found")
  ELSE LET steps == IF Has(args, "steps") THEN args.steps ELSE 1
           diagram == getDiagram(w, args.diagramId)
           m == w.states[diagram].modeler
           isUndo == args.action = "undo"
           canStart == IF isUndo THEN canUndo(w.modelers[m]) ELSE canRedo(w.modelers[m])
           done == performSteps(w.modelers[m], isUndo, steps, 0, 0)
       IN IF ~canStart THEN Returned(w, [success |-> FALSE])
          ELSE Returned(syncXml([w EXCEPT !.modelers[m] = done.m], diagram),
                        [success |-> TRUE, canUndo |-> canUndo(done.m),
                         canRedo |-> canRedo(done.m), stepsPerformed |-> done.performed])

RECURSIVE dispatchToolCall(_, _, _)

\* the Map from diagram id to _stackIdx, in insertion order, from operation i on
RECURSIVE captureCommandStackPositions(_, _, _, _)
captureCommandStackPositions(w, operations, i, positions) ==
  IF i > Len(operations) THEN positions
  ELSE LET args == operations[i].args
           known == /\ Has(args, "diagramId")
                    /\ args.diagramId # ""
                    /\ \A j \in 1..Len(positions) : positions[j].id # args.diagramId
                    /\ getDiagram(w, args.diagramId) # UndefinedState
       IN captureCommandStackPositions(w, operations, i + 1,
            IF known
            THEN Append(positions,
                   [id |-> args.diagramId,
                    startIdx |-> w.modelers[w.states[getDiagram(w, args.diagramId)].modeler].stackIdx])
            ELSE positions)

\* while (commandStack._stackIdx > startIdx && commandStack.canUndo()) commandStack.undo()
RECURSIVE UndoneTo(_, _)
UndoneTo(m, startIdx) ==
  IF m.stackIdx > startIdx /\ canUndo(m) THEN UndoneTo(undo(m), startIdx) ELSE m

RECURSIVE rollbackDiagrams(_, _, _)
rollbackDiagrams(w, positions, i) ==
  IF i > Len(positions) THEN w
  ELSE LET diagram == getDiagram(w, positions[i].id)
       IN rollbackDiagrams(
            IF diagram = UndefinedState THEN w
            ELSE syncXml([w EXCEPT !.modelers[w.states[diagram].modeler] =
                                      UndoneTo(@, positions[i].startIdx)], diagram),
            positions, i + 1)

\* (mutation) the loop ends at the first failure whatever stopOnError says
RECURSIVE RunOperationsStopping(_, _, _, _, _, _)
RunOperationsStopping(w, operations, i, results, stopOnError, positions) ==
  IF ~(i < Len(operations)) THEN [w |-> w, results |-> results, rolledBack |-> FALSE]
  ELSE LET op == operations[i + 1]
           r == dispatchToolCall(w, op.tool, op.args)
           failed == Append(results, [index |-> i, tool |-> op.tool, success |-> FALSE,
                                      error |-> r.result.error])
       IN IF ~r.thrown
          THEN RunOperationsStopping(r.w, operations, i + 1,
                                     Append(results, [index |-> i, tool |-> op.tool,
                                                      success |-> TRUE, result |-> r.result]),
                                     stopOnError, positions)
          ELSE IF stopOnError
          THEN [w |-> rollbackDiagrams(r.w, positions, 1), results |-> failed,
                rolledBack |-> TRUE]
          ELSE [w |-> r.w, results |-> failed, rolledBack |-> FALSE]

\* the loop over the operations from index i on (i counts from 0 as in the code)
RECURSIVE RunOperations(_, _, _, _, _, _)
RunOperations(w, operations, i, results, stopOnError, positions) ==
  IF ~(i < Len(operations)) THEN [w |-> w, results |-> results, rolledBack |-> FALSE]
  ELSE LET op == operations[i + 1]
           r == dispatchToolCall(w, op.tool, op.args)
           failed == Append(results, [index |-> i, tool |-> op.tool, success |-> FALSE,
                                      error |-> r.result.error])
       IN IF ~r.thrown
          THEN RunOperations(r.w, operations, i + 1,
                             Append(results, [index |-> i, tool |-> op.tool,
                                              success |-> TRUE, result |-> r.result]),
                             stopOnError, positions)
          ELSE IF stopOnError
          THEN [w |-> rollbackDiagrams(r.w, positions, 1), results |-> failed,
                rolledBack |-> TRUE]
          ELSE RunOperations(r.w, operations, i + 1, failed, stopOnError, positions)

Count(results, success) ==
  Cardinality({i \in 1..Len(results) : results[i].success = success})

handleBatchOperations(w, args) ==
  IF ~Has(args, "operations") THEN Threw(w, "Missing required")
  ELSE IF Len(args.operations) = 0 THEN Threw(w, "Missing required")
  ELSE IF \E i \in 1..Len(args.operations) : args.operations[i].tool = "batch_dmn_operations"
  THEN Threw(w, "Nested batch operations are not allowed")
  ELSE LET stopOnError == IF Has(args, "stopOnError") THEN args.stopOnError ELSE TRUE
           commandStackDepths == captureCommandStackPositions(w, args.operations, 1, <<>>)
           run == RunOperations(w, args.operations, 0, <<>>, stopOnError, commandStackDepths)
           response == [success |-> Count(run.results, FALSE) = 0,
                        totalOperations |-> Len(args.operations),
                        executed |-> Len(run.results),
                        succeeded |-> Count(run.results, TRUE),
                        failed |-> Count(run.results, FALSE),
                        results |-> run.results]
       IN Returned(run.w, IF run.rolledBack THEN [rolledBack |-> TRUE] @@ response
                          ELSE response)

dispatchToolCall(w, name, args) ==
  CASE name = "create_dmn_diagram" -> handleCreateDiagram(w, args)
    [] name = "delete_dmn_diagram" -> handleDeleteDiagram(w, args)
    [] name = "dmn_history" -> handleDmnHistory(w, args)
    [] name = "batch_dmn_operations" -> handleBatchOperations(w, args)
    [] name = "move_dmn_element" -> handleMoveElement(w, args)
    [] name = "add_dmn_rule" -> handleAddRule(w, args)
    [] OTHER -> Threw(w, "Unknown tool")

\* the call and its outcome
Reply(op, args, thrown, result, w) ==
  [op |-> op, args |-> args, thrown |-> thrown, result |-> result, before |-> w,
   earlier |-> <<>>]

NoReply == Reply("none", <<>>, FALSE, <<>>, <<>>)

\* the variables take the fields of the world w
Becomes(w) ==
  /\ diagrams' = w.diagrams
  /\ modelerToDiagramId' = w.modelerToDiagramId
  /\ states' = w.states
  /\ modelers' = w.modelers

NoDiagrams ==
  /\ diagrams = <<>>
  /\ modelerToDiagramId = <<>>
  /\ states = <<>>
  /\ modelers = <<>>
  /\ reply = NoReply

\* ------------------------------------------------------------ specifications
NoElement == Element("", <<>>, <<>>)
NoBox == [called |-> FALSE, value |-> EmptyLiteral, on |-> "", touched |-> FALSE]

\* el.getBBox()
GetBBox ==
  /\ box' = [called |-> TRUE, value |-> polyfillGetBBox(node), on |-> "", touched |-> FALSE]
  /\ UNCHANGED <<node, empty, doc, prev, tvars, mats, svars>>

BNext == GetBBox

\* no document, no getBBox call yet
NoCalls ==
  /\ box = NoBox
  /\ prev = NoBox
  /\ empty = EmptyLiteral

Init ==
  /\ TInit
  /\ NoDiagrams
  /\ mats = <<>>
  /\ node = NoElement
  /\ doc = [el \in Elements |-> NoElement]
  /\ NoCalls

BInit ==
  /\ TInit
  /\ NoDiagrams
  /\ mats = <<>>
  /\ node \in Shapes \cup Polygons \cup Groups \cup Paths \cup Tagged
  /\ doc = [el \in Elements |-> NoElement]
  /\ NoCalls

\* ------------------------------------------------------- text elements
\* el.getComputedTextLength()
GetComputedTextLength ==
  /\ last' = [Call("getComputedTextLength", "ok", 0, 0)
                EXCEPT !.ret = polyfillGetComputedTextLength(node)]
  /\ UNCHANGED <<attribute, elList, lists, objs, calls, bvars, mats, svars>>

XNext ==
  \/ GetBBox
  \/ GetComputedTextLength

XInit ==
  /\ TInit
  /\ NoDiagrams
  /\ mats = <<>>
  /\ node \in Texts
  /\ doc = [el \in Elements |-> NoElement]
  /\ NoCalls

\* ---------------------------------------- getBBox called again and again
MaxBoxCalls == 3

\* the elements a document is made of
DocNodes ==
  { Rect(<<"1">>, <<"2">>, <<"5">>, <<"7">>),
    Element("defs", <<>>, <<>>),
    Element("g", <<>>, <<Element("defs", <<>>, <<>>)>>) }

\* el.setAttribute(name, value)
setAttribute(el, name, value) ==
  [el EXCEPT !.attrs = [n \in DOMAIN el.attrs \cup {name} |->
                          IF n = name THEN value ELSE el.attrs[n]]]

\* a step of the caller or of the polyfill that is counted
Step(call) ==
  /\ calls < MaxBoxCalls
  /\ calls' = calls + 1
  /\ last' = call

\* (mutation) the measured width is stored on the element
GetBBoxOfStoring(el) ==
  LET b == polyfillGetBBox(doc[el])
  IN /\ Step([Call("getBBox", IF b.obj = "TypeError" THEN "TypeError" ELSE "ok", 0, 0)
                 EXCEPT !.el = el])
     /\ node' = doc[el]
     /\ box' = [called |-> TRUE, value |-> b, on |-> el, touched |-> FALSE]
     /\ prev' = box
     /\ doc' = [doc EXCEPT ![el] = setAttribute(doc[el], "width", <<"9">>)]
     /\ UNCHANGED <<empty, attribute, elList, lists, objs, mats, svars>>

\* el.getBBox() on an element of the document
GetBBoxOf(el) ==
  LET b == polyfillGetBBox(doc[el])
  IN /\ Step([Call("getBBox", IF b.obj = "TypeError" THEN "TypeError" ELSE "ok", 0, 0)
                 EXCEPT !.el = el])
     /\ node' = doc[el]
     /\ box' = [called |-> TRUE, value |-> b, on |-> el, touched |-> FALSE]
     /\ prev' = box
     /\ UNCHANGED <<empty, doc, attribute, elList, lists, objs, mats, svars>>

\* the caller assigns a field of the box it was handed last: b[k] = v
AssignField(k, v) ==
  /\ box.called
  /\ box.value.obj \in {"new", "EMPTY"}
  /\ Step(Call("assign", "ok", 0, 0))
  /\ box' = [box EXCEPT !.value[k] = v, !.touched = TRUE]
  /\ empty' = IF box.value.obj = "EMPTY" THEN [empty EXCEPT ![k] = v] ELSE empty
  /\ UNCHANGED <<node, doc, prev, attribute, elList, lists, objs, mats, svars>>

\* the caller changes an attribute of an element
SetAttribute(el, name, value) ==
  /\ Step([Call("setAttribute", "ok", 0, 0) EXCEPT !.el = el])
  /\ doc' = [doc EXCEPT ![el] = setAttribute(doc[el], name, value)]
  /\ box' = [box EXCEPT !.touched = TRUE]
  /\ UNCHANGED <<node, empty, prev, attribute, elList, lists, objs, mats, svars>>

CNext ==
  \/ \E el \in Elements : GetBBoxOf(el)
  \/ \E k \in {"width"} : \E v \in {Num(9)} : AssignField(k, v)
  \/ \E el \in Elements : \E v \in {<<"3">>} : SetAttribute(el, "x", v)
  \/ \E el \in Elements : calls < MaxBoxCalls /\ ReadTransform(el)
  \/ calls < MaxBoxCalls /\ CreateSVGTransform
  \/ \E l \in 1..nLists : \E i \in 1..nItems : calls < MaxBoxCalls /\ AppendItem(l, i)

CInit ==
  /\ TInit
  /\ NoDiagrams
  /\ mats = <<>>
  /\ node = NoElement
  /\ doc \in [Elements -> DocNodes]
  /\ NoCalls

\* ------------------------------------------------- the SVGMatrix methods
MaxMatrixCalls == 2

\* matrices whose fields the caller has set
Coefficients == {-1, 0, 1, 2}
Receivers ==
  {[a |-> a, b |-> b, c |-> c, d |-> d, e |-> p[1], f |-> p[2]] :
     a \in Coefficients, b \in Coefficients, c \in Coefficients, d \in Coefficients,
     p \in {<<0, 0>>, <<3, -2>>}}
Arguments == {[a |-> 2, b |-> 1, c |-> 3, d |-> 1, e |-> 5, f |-> -4]}

MStep(call) ==
  /\ calls < MaxMatrixCalls
  /\ calls' = calls + 1
  /\ last' = call
  /\ UNCHANGED <<attribute, elList, lists, objs, bvars, svars>>

\* (mutation) the result is written into the receiver, which is returned
NewMatrixInPlace(op, recv, args, m) ==
  /\ recv >= 1
  /\ mats' = [mats EXCEPT ![recv] = m]
  /\ MStep([Call(op, "ok", recv, recv) EXCEPT !.before = mats, !.args = args])

\* const m = new SVGMatrix(); ...; return m
NewMatrix(op, recv, args, m) ==
  /\ mats' = Append(mats, m)
  /\ MStep([Call(op, "ok", Len(mats) + 1, recv) EXCEPT !.before = mats, !.args = args])

\* svg.createSVGMatrix()
CreateSVGMatrix == NewMatrix("createSVGMatrix", 0, <<>>, SVGMatrix)

Multiply(i, j) == NewMatrix("multiply", i, <<j>>, multiply(mats[i], mats[j]))

\* (on matrices whose inverse has integer coefficients, and singular ones)
Inverse(i) == Exact(mats[i]) /\ NewMatrix("inverse", i, <<>>, inverse(mats[i]))

Translate(i, x, y) == NewMatrix("translate", i, <<x, y>>, translate(mats[i], x, y))

Scale(i, s) == NewMatrix("scale", i, <<s>>, scale(mats[i], s))

MNext ==
  \/ CreateSVGMatrix
  \/ \E i \in 1..Len(mats) : \E j \in 1..Len(mats) : Multiply(i, j)
  \/ \E i \in 1..Len(mats) : Inverse(i)
  \/ \E i \in 1..Len(mats) : \E p \in {<<3, -2>>} : Translate(i, p[1], p[2])
  \/ \E i \in 1..Len(mats) : \E s \in {2} : Scale(i, s)

\* ------------------------------------------- the mutators of one item
MaxItemCalls == 4

ItemTranslateArgs == {<<5, 3>>, <<-2, 0>>}
ItemScaleArgs == {<<2, 3>>}
\* matrices with their six coefficients, and the plain objects of MatrixArgs
ItemMatrixArgs ==
  MatrixArgs \cup {[a |-> 2, b |-> 1, c |-> 3, d |-> 1, e |-> 5, f |-> -4],
                   [a |-> 0, b |-> -1, c |-> 1, d |-> 0, e |-> 0, f |-> 7]}

INext ==
  \/ calls < MaxItemCalls /\ CreateSVGTransform
  \/ \E i \in 1..nItems : \E p \in ItemTranslateArgs :
       calls < MaxItemCalls /\ SetTranslate(i, p[1], p[2])
  \/ \E i \in 1..nItems : \E p \in ItemScaleArgs :
       calls < MaxItemCalls /\ SetScale(i, p[1], p[2])
  \/ \E i \in 1..nItems : \E p \in RotateArgs :
       calls < MaxItemCalls /\ SetRotate(i, p[1], p[2], p[3])
  \/ \E i \in 1..nItems : \E m \in ItemMatrixArgs :
       calls < MaxItemCalls /\ SetMatrix(i, m)

MInit ==
  /\ TInit
  /\ NoDiagrams
  /\ mats \in {<<m, n>> : m \in Receivers, n \in Arguments}
  /\ node = NoElement
  /\ doc = [el \in Elements |-> NoElement]
  /\ NoCalls

\* ------------------------------------------------- calls of the tools
EmptyWorld ==
  [diagrams |-> <<>>, modelerToDiagramId |-> <<>>, states |-> <<>>, modelers |-> <<>>]

Operation(tool, args) == [tool |-> tool, args |-> args]

CreateBlank == Operation("create_dmn_diagram", [hintLevel |-> "full"])
CreateNamed == Operation("create_dmn_diagram", [name |-> "Loan"])
DeleteOf(id) == Operation("delete_dmn_diagram", [diagramId |-> id])
MoveOf(id, x) ==
  Operation("move_dmn_element", [diagramId |-> id, elementId |-> "Decision_1", x |-> x])
MoveUnknownOf(id) ==
  Operation("move_dmn_element", [diagramId |-> id, elementId |-> "Decision_9", x |-> 300])
AddRuleOf(id) == Operation("add_dmn_rule", [diagramId |-> id, decisionId |-> "Decision_1"])
HistoryOf(id, action, steps) ==
  Operation("dmn_history", [diagramId |-> id, action |-> action, steps |-> steps])
HistoryOnceOf(id, action) == Operation("dmn_history", [diagramId |-> id, action |-> action])
UnknownTool == Operation("layout_dmn_element", [hintLevel |-> "full"])
NestedBatch == Operation("batch_dmn_operations", [operations |-> <<CreateBlank>>])

\* the world after the calls of a sequence of operations, one after the other
RECURSIVE AfterCalls(_, _, _)
AfterCalls(w, operations, i) ==
  IF i > Len(operations) THEN w
  ELSE AfterCalls(dispatchToolCall(w, operations[i].tool, operations[i].args).w,
                  operations, i + 1)

\* the worlds the calls start in: each is what a sequence of tool calls leaves
Preparations ==
  LET d1 == "diagram_1"
      d2 == "diagram_2"
  IN {<<CreateBlank>>,
      <<CreateNamed>>,
      <<CreateBlank, MoveOf(d1, 300)>>,
      <<CreateBlank, MoveOf(d1, 300), HistoryOnceOf(d1, "undo")>>,
      <<CreateBlank, MoveOf(d1, 300), MoveOf(d1, 160), HistoryOnceOf(d1, "undo")>>,
      <<CreateBlank, CreateBlank, MoveOf(d2, 300)>>,
      <<CreateNamed, CreateBlank, MoveOf(d1, 300), MoveOf(d2, 300), HistoryOnceOf(d2, "undo")>>,
      <<CreateBlank, CreateBlank, DeleteOf(d1)>>}

PreparedWorlds == {AfterCalls(EmptyWorld, p, 1) : p \in Preparations}

\* the ids that generateDiagramId has handed out in world w
GeneratedIds(w) == {"diagram_" \o ToString(k) : k \in 1..Len(w.states)}

\* a call of a tool from outside: the reply keeps the call before it
CallTool(name, args) ==
  LET r == dispatchToolCall(World, name, args)
  IN /\ Becomes(r.w)
     /\ reply' = [Reply(name, args, r.thrown, r.result, World)
                    EXCEPT !.earlier = [reply EXCEPT !.earlier = <<>>]]
     /\ calls' = calls + 1
     /\ UNCHANGED <<attribute, elList, lists, objs, last, bvars, mats>>

\* the variables have the fields of the world w
Starts(w) ==
  /\ diagrams = w.diagrams
  /\ modelerToDiagramId = w.modelerToDiagramId
  /\ states = w.states
  /\ modelers = w.modelers

PInit ==
  /\ TInit
  /\ \E w \in PreparedWorlds : Starts(w)
  /\ reply = NoReply
  /\ mats = <<>>
  /\ node = NoElement
  /\ doc = [el \in Elements |-> NoElement]
  /\ NoCalls

\* ------------------------------------------------------------- batches
MaxOperations == 3
MaxBatches == 1

\* the operations of a batch
Operations(w) ==
  UNION {{MoveOf(id, 300), MoveOf(id, 160), MoveUnknownOf(id), AddRuleOf(id),
          HistoryOf(id, "undo", 1), HistoryOf(id, "redo", 1), DeleteOf(id)} :
           id \in GeneratedIds(w)}
    \cup {MoveOf("nonexistent", 300), CreateBlank, UnknownTool}

OperationLists(w) == UNION {[1..n -> Operations(w)] : n \in 1..MaxOperations}

Batch(args) == calls < MaxBatches /\ CallTool("batch_dmn_operations", args)

GNext ==
  \/ \E l \in OperationLists(World) : Batch([operations |-> l])
  \/ \E l \in OperationLists(World) : Batch([operations |-> l, stopOnError |-> FALSE])
  \/ \E l \in {<<>>, <<CreateBlank, NestedBatch>>} : Batch([operations |-> l])
  \/ Batch([stopOnError |-> FALSE])

\* ------------------------------------------------------------- history
MaxSteps == 3
MaxHistoryCalls == 3

\* the ids a caller passes: those handed out, and one that never was
CallerIds(w) == GeneratedIds(w) \cup {"nonexistent"}

HNext ==
  \/ \E id \in CallerIds(World) : \E action \in {"undo", "redo"} : \E n \in 0..MaxSteps :
       /\ calls < MaxHistoryCalls
       /\ CallTool("dmn_history", [diagramId |-> id, action |-> action, steps |-> n])
  \/ \E id \in CallerIds(World) : \E action \in {"undo", "redo"} :
       /\ calls < MaxHistoryCalls
       /\ CallTool("dmn_history", [diagramId |-> id, action |-> action])
  \/ \E id \in GeneratedIds(World) : \E x \in {160, 300} :
       /\ calls < MaxHistoryCalls
       /\ CallTool("move_dmn_element",
                   [diagramId |-> id, elementId |-> "Decision_1", x |-> x])

\* ------------------------------------------------ calls of the store
\* the ids and the DiagramState objects the caller has: two with a modeler of
\* their own, one without
StoreIds == {"test_1", "test_2"}
CallerStates ==
  <<[modeler |-> 1, xml |-> saveXML(createModeler)],
    [modeler |-> 2, xml |-> saveXML(createModeler)],
    [modeler |-> 0, xml |-> saveXML(createModeler)]>>

\* a call of a function of the store: the world after it and what it returned
StoreCall(op, args, w, ret) ==
  /\ Becomes(w)
  /\ reply' = Reply(op, args, FALSE, ret, World)
  /\ UNCHANGED <<tvars, bvars, mats>>

StoreDiagram(id, s) == StoreCall("storeDiagram", <<id, s>>, storeDiagram(World, id, s), 0)

DeleteDiagram(id) ==
  StoreCall("deleteDiagram", <<id>>, deleteDiagram(World, id).w, deleteDiagram(World, id).ret)

ClearDiagrams == StoreCall("clearDiagrams", <<>>, clearDiagrams(World), 0)

GetDiagramId(s) == StoreCall("getDiagramId", <<s>>, World, getDiagramId(World, s))

GetDiagram(id) == StoreCall("getDiagram", <<id>>, World, getDiagram(World, id))

DNext ==
  \/ \E id \in StoreIds : \E s \in 1..Len(states) : StoreDiagram(id, s)
  \/ \E id \in StoreIds : DeleteDiagram(id)
  \/ ClearDiagrams
  \/ \E s \in 1..Len(states) : GetDiagramId(s)
  \/ \E id \in StoreIds : GetDiagram(id)

DInit ==
  /\ TInit
  /\ diagrams = <<>>
  /\ modelerToDiagramId = <<>>
  /\ states = CallerStates
  /\ modelers = <<createModeler, createModeler>>
  /\ reply = NoReply
  /\ mats = <<>>
  /\ node = NoElement
  /\ doc = [el \in Elements |-> NoElement]
  /\ NoCalls

\* ------------------------------------ list operations on a document
\* the documents the list operations run on: a shape and a group
FrameDocs ==
  {[el \in Elements |-> IF el = "e1" THEN Rect(<<"1">>, <<"2">>, <<"5">>, <<"7">>)
                        ELSE Element("g", <<>>, <<Rect(<<"3">>, <<"4">>, <<"2">>, <<"2">>)>>)],
   [el \in Elements |-> IF el = "e2" THEN Rect(<<"1">>, <<"2">>, <<"5">>, <<"7">>)
                        ELSE Element("defs", <<>>, <<>>)]}

FInit ==
  /\ TInit
  /\ NoDiagrams
  /\ mats = <<>>
  /\ node = NoElement
  /\ doc \in FrameDocs
  /\ NoCalls

Spec == Init /\ [][TNext]_vars
SpecText == XInit /\ [][XNext]_vars
SpecItem == Init /\ [][INext]_vars
SpecMatrix == MInit /\ [][MNext]_vars
SpecCalls == CInit /\ [][CNext]_vars
SpecInRange == Init /\ [][TNextInRange]_vars
SpecBBox == BInit /\ [][BNext]_vars
SpecBatch == PInit /\ [][GNext]_vars
SpecHistory == PInit /\ [][HNext]_vars
SpecStore == DInit /\ [][DNext]_vars
SpecFrame == FInit /\ [][TNext]_vars

\* ================================================================== claims
MutatingOps ==
  {"insertItemBefore", "replaceItem", "removeItem", "appendItem", "initialize",
   "consolidate", "clear"}
IndexedOps == {"getItem", "insertItemBefore", "replaceItem", "removeItem"}
ListOps == MutatingOps \cup {"getItem"}

\* every slot of the array holds an item
Dense(items) == \A k \in 1..Len(items) : items[k] >= 1

\* the transform function the serialization rule prescribes for a matrix
RuleFunction(m) ==
  IF <<m.a, m.b, m.c, m.d>> = <<1, 0, 0, 1>>
  THEN "translate(" \o ToString(m.e) \o ", " \o ToString(m.f) \o ")"
  ELSE "matrix(" \o ToString(m.a) \o ", " \o ToString(m.b) \o ", " \o ToString(m.c)
         \o ", " \o ToString(m.d) \o ", " \o ToString(m.e) \o ", " \o ToString(m.f) \o ")"

\* the functions of the first n items, in list order, single spaces between
RECURSIVE RuleString(_, _, _)
RuleString(items, heap, n) ==
  IF n = 1 THEN RuleFunction(heap[items[1]].matrix)
  ELSE RuleString(items, heap, n - 1) \o " " \o RuleFunction(heap[items[n]].matrix)

\* the attribute that reflects an item sequence
Reflects(a, items, heap) ==
  IF Len(items) = 0 THEN ~a.present
  ELSE /\ Dense(items)
       /\ a = Str(RuleString(items, heap, Len(items)))

Consistent(l, ls, as, heap) == Reflects(as[ls[l].element], ls[l].items, heap)

\* C1: after a mutating list operation with indexes in range, the element's
\* transform attribute is the serialization of the list's items (absent when
\* the list is empty).
C1_AttributeReflectsItems ==
  last.op \in MutatingOps => Consistent(last.recv, lists, attribute, objs)

\* C2: at every moment of an element's lifetime from the creation of its list
\* on, the attribute is the serialization of the list's items.
C2_NeverDiverge ==
  \A el \in Elements : elList[el] # 0 => Consistent(elList[el], lists, attribute, objs)

\* identity.multiply(m1).multiply(m2)...multiply(mn) over the first n items
RECURSIVE Product(_, _, _)
Product(items, heap, n) ==
  IF n = 0 THEN SVGMatrix
  ELSE multiply(Product(items, heap, n - 1), heap[items[n]].matrix)

IsTranslation(m) == m.a = 1 /\ m.b = 0 /\ m.c = 0 /\ m.d = 1

RECURSIVE SumOf(_, _, _, _)
SumOf(items, heap, k, n) ==
  IF n = 0 THEN 0 ELSE heap[items[n]].matrix[k] + SumOf(items, heap, k, n - 1)

C4_NoThrowAnyIndex ==
  [][last'.op \in IndexedOps =>
       /\ last'.outcome = "ok"
       /\ Consistent(last'.recv, lists, attribute, objs)
            => Consistent(last'.recv, lists', attribute', objs')
    ]_vars

\* C5: after a list operation the attribute is absent exactly when the list
\* holds no item, it is never the empty string, and clear() leaves no item and
\* no attribute.
C5_AbsentIffEmpty ==
  last.op \in ListOps =>
    LET list == lists[last.recv]
        a == attribute[list.element]
    IN /\ ~a.present <=> Len(list.items) = 0
       /\ a.present => a.value # ""
       /\ last.op = "clear" => (Len(list.items) = 0 /\ ~a.present)

\* C6: what a completed mutating operation writes for a non-empty list is, per
\* item in list order, translate(e, f) when a=1, b=0, c=0, d=1 and
\* matrix(a, b, c, d, e, f) otherwise, joined by single spaces.
C6_SerializationRule ==
  (/\ last.op \in MutatingOps
   /\ last.outcome = "ok"
   /\ last.ret # -1
   /\ Len(lists[last.recv].items) > 0)
  => LET list == lists[last.recv]
     IN attribute[list.element] = Str(RuleString(list.items, objs, Len(list.items)))

\* an identity item and a quarter turn were written
C6_Witness ==
  /\ last.op = "appendItem"
  /\ attribute[lists[last.recv].element] = Str("translate(0, 0) matrix(0, 1, -1, 0, 0, 0)")

\* C7: a read of element.transform returns one list as baseVal and animVal, the
\* element's own; an element's list, once created, is never replaced; two
\* elements never share a list.
C7_OneListPerElement ==
  /\ \A el \in Elements : \A other \in Elements \ {el} :
       elList[el] # 0 => elList[el] # elList[other]
  /\ \A el \in Elements :
       elList[el] # 0 => elList[el] \in 1..nLists /\ lists[elList[el]].element = el
  /\ last.op = "transform" =>
       /\ last.baseVal = last.animVal
       /\ last.baseVal = elList[last.el]
       /\ last.baseVal >= 1
       /\ last.cached # 0 => last.baseVal = last.cached

\* e1 is read again after its list was changed, e2 having a list of its own
C7_Witness ==
  /\ last.op = "transform"
  /\ last.el = "e1"
  /\ last.cached # 0
  /\ elList["e2"] # 0
  /\ Len(lists[last.baseVal].items) > 0

\* ------------------------------------------------------------------ getBBox
\* the four numbers of a box; those of the zero box
Fields(b) == <<b.x, b.y, b.width, b.height>>
ZeroFields == <<Num(0), Num(0), Num(0), Num(0)>>

Finite(b) == isFinite(b.x) /\ isFinite(b.y) /\ isFinite(b.width) /\ isFinite(b.height)

IsNumberToken(t) == AllDigits(t) \/ (Len(t) > 1 /\ t[1] = "-" /\ AllDigits(Tail(t)))

\* the points attribute is missing, empty, white space only, or none of its
\* tokens is a number
NoParseableNumber(el) ==
  LET tokens == split(trim(AttributeOr(el, "points", <<>>)))
  IN \A j \in 1..Len(tokens) : ~IsNumberToken(tokens[j])

\* C8: getBBox of a polygon or polyline whose points attribute is missing,
\* empty, white space only or without a parseable number is the zero box, and
\* no component of a polygon's or polyline's box is infinite or NaN.
C8_MalformedPointsZeroBox ==
  (box.called /\ node.tagName \in {"polygon", "polyline"}) =>
     /\ NoParseableNumber(node) => Fields(box.value) = ZeroFields
     /\ Finite(box.value)

\* the value the shape's formula takes for an attribute: the number it starts
\* with, 0 when it is missing or starts with none
ValueOrZero(el, name) ==
  LET n == parseFloat(AttributeOr(el, name, <<"0">>))
  IN IF n.k = "num" THEN n.v ELSE 0

Abs(n) == IF n < 0 THEN 0 - n ELSE n

ShapeFormula(el) ==
  LET v(name) == ValueOrZero(el, name)
  IN CASE el.tagName = "rect" -> BBox(Num(v("x")), Num(v("y")), Num(v("width")), Num(v("height")))
       [] el.tagName = "circle" ->
            BBox(Num(v("cx") - v("r")), Num(v("cy") - v("r")), Num(2 * v("r")), Num(2 * v("r")))
       [] el.tagName = "ellipse" ->
            BBox(Num(v("cx") - v("rx")), Num(v("cy") - v("ry")), Num(2 * v("rx")), Num(2 * v("ry")))
       [] el.tagName = "line" ->
            BBox(Num(Min2(v("x1"), v("x2"))), Num(Min2(v("y1"), v("y2"))),
                 Num(Abs(v("x2") - v("x1"))), Num(Abs(v("y2") - v("y1"))))

\* C9: getBBox of a rect, circle, ellipse or line is the shape's formula with
\* every missing or invalid attribute taken as 0: four finite numbers.
C9_InvalidAttributeIsZero ==
  (box.called /\ node.tagName \in {"rect", "circle", "ellipse", "line"}) =>
     /\ Fields(box.value) = Fields(ShapeFormula(node))
     /\ Finite(box.value)

\* the boxes of the children that contribute to a group's box
Contributing(el) ==
  {polyfillGetBBox(el.childNodes[i]) : i \in
     {j \in 1..Len(el.childNodes) :
        /\ el.childNodes[j].tagName # ""
        /\ LET b == polyfillGetBBox(el.childNodes[j])
           IN ~(b.width = Num(0) /\ b.height = Num(0))}}

IsMin(v, S) == v \in S /\ \A u \in S : ~JsLt(u, v)
IsMax(v, S) == v \in S /\ \A u \in S : ~JsGt(u, v)
JsLe(x, y) == JsLt(x, y) \/ (x.k = "num" /\ x = y)

Contains(outer, b) ==
  /\ JsLe(outer.x, b.x)
  /\ JsLe(outer.y, b.y)
  /\ JsLe(JsAdd(b.x, b.width), JsAdd(outer.x, outer.width))
  /\ JsLe(JsAdd(b.y, b.height), JsAdd(outer.y, outer.height))

IsUnion(r, boxes) ==
  LET xs == {b.x : b \in boxes}
      ys == {b.y : b \in boxes}
      rights == {JsAdd(b.x, b.width) : b \in boxes}
      bottoms == {JsAdd(b.y, b.height) : b \in boxes}
  IN /\ IsMin(r.x, xs)
     /\ IsMin(r.y, ys)
     /\ \E right \in rights : IsMax(right, rights) /\ r.width = JsSub(right, r.x)
     /\ \E bottom \in bottoms : IsMax(bottom, bottoms) /\ r.height = JsSub(bottom, r.y)

\* C10: getBBox of a g or svg is the union of the boxes of its contributing
\* children (those with a tag name and a box that is not 0 wide and 0 high),
\* the zero box when there is none, and contains each contributing box.
C10_GroupUnion ==
  (box.called /\ node.tagName \in {"g", "svg"}) =>
     LET boxes == Contributing(node)
     IN IF boxes = {} THEN Fields(box.value) = ZeroFields
        ELSE /\ IsUnion(box.value, boxes)
             /\ \A b \in boxes : Contains(box.value, b)


\* two results are one object
SameObject(a, b) == a.obj = "EMPTY" /\ b.obj = "EMPTY"

\* C11: no two getBBox calls return the same box object, and assigning a field
\* of a returned box does not change what a later call returns: an element
\* without geometry still measures as the zero box.
C11_FreshBoxPerCall ==
  /\ (box.called /\ prev.called) => ~SameObject(prev.value, box.value)
  /\ (box.called /\ ~box.touched /\ node.tagName = "defs") => Fields(box.value) = ZeroFields

\* C12: a getBBox call changes no attribute, no child list and no
\* TransformList of any element, and a call that follows a call on the same
\* element, nothing having been modified in between, returns an equal box.
C12_ReadOnlyDeterministic ==
  /\ []((last.op = "getBBox" /\ prev.called /\ ~prev.touched /\ prev.on = box.on)
          => Fields(box.value) = Fields(prev.value))
  /\ [][(last'.op = "getBBox" /\ calls' = calls + 1)
          => /\ doc' = doc
             /\ attribute' = attribute
             /\ elList' = elList
             /\ lists' = lists
             /\ objs' = objs]_vars

\* a shape whose TransformList exists is measured twice in a row
C12_Witness ==
  /\ last.op = "getBBox"
  /\ prev.called /\ ~prev.touched /\ prev.on = box.on
  /\ box.value.obj = "new"
  /\ elList[box.on] # 0

\* the tag names of BBOX_BY_TAG's entries, and the lower-case form of the
\* other spellings used
SupportedTags ==
  {"rect", "circle", "ellipse", "line", "polygon", "polyline", "path", "text", "tspan",
   "g", "svg"}
LowerCased(t) ==
  CASE t \in {"RECT", "Rect"} -> "rect" [] t = "CIRCLE" -> "circle"
    [] t = "Ellipse" -> "ellipse" [] t = "LINE" -> "line" [] t = "POLYGON" -> "polygon"
    [] t = "PolyLine" -> "polyline" [] t = "PATH" -> "path" [] t = "G" -> "g"
    [] t = "SVG" -> "svg" [] t = "DEFS" -> "defs" [] t = "Constructor" -> "constructor"
    [] OTHER -> t

\* C13: getBBox of an element whose lower-cased tag name is not a supported
\* one (or that has no tag name) returns the zero box and does not throw; for
\* a supported tag the result is that of the lower-case spelling.
C13_UnknownTagZeroBox ==
  (box.called /\ node \in Tagged) =>
     /\ LowerCased(node.tagName) \notin SupportedTags =>
          /\ box.value.obj \in {"new", "EMPTY"}
          /\ Fields(box.value) = ZeroFields
     /\ LowerCased(node.tagName) \in SupportedTags =>
          Fields(box.value) =
            Fields(polyfillGetBBox([node EXCEPT !.tagName = LowerCased(node.tagName)]))

\* ---------------------------------------------------------------- SVGMatrix
Identity == [a |-> 1, b |-> 0, c |-> 0, d |-> 1, e |-> 0, f |-> 0]
MatrixOps == {"multiply", "inverse", "translate", "scale"}
Points == {<<x, y>> : x \in -1..2, y \in -1..2}

\* the matrix applied to a point
Apply(m, p) == <<m.a * p[1] + m.c * p[2] + m.e, m.b * p[1] + m.d * p[2] + m.f>>

\* the composition this o other, coefficient by coefficient
Composition(m, n) ==
  [a |-> m.a * n.a + m.c * n.b, b |-> m.b * n.a + m.d * n.b,
   c |-> m.a * n.c + m.c * n.d, d |-> m.b * n.c + m.d * n.d,
   e |-> m.a * n.e + m.c * n.f + m.e, f |-> m.b * n.e + m.d * n.f + m.f]

\* receiver, first argument and result of the last call
Receiver == last.before[last.recv]
Argument == last.before[last.args[1]]
Result == mats[last.ret]

\* C14: M.multiply(N) maps every point to M applied to N applied to the point,
\* its coefficients are those of the composition, and translate(x, y) and
\* scale(s) are the multiplication by (1,0,0,1,x,y) and by (s,0,0,s,0,0).
C14_MultiplyComposes ==
  /\ last.op = "multiply" =>
       /\ Result = Composition(Receiver, Argument)
       /\ \A p \in Points : Apply(Result, p) = Apply(Receiver, Apply(Argument, p))
  /\ last.op = "translate" =>
       Result = Composition(Receiver, [Identity EXCEPT !.e = last.args[1], !.f = last.args[2]])
  /\ last.op = "scale" =>
       Result = Composition(Receiver, [Identity EXCEPT !.a = last.args[1], !.d = last.args[1]])

\* a product that depends on the order of its operands was computed
C14_Witness ==
  /\ last.op = "multiply"
  /\ Composition(Receiver, Argument) # Composition(Argument, Receiver)
  /\ Receiver.e = 3

\* C15: for a matrix M with non-zero determinant (and an inverse of integer
\* coefficients), M.multiply(M.inverse()) is the identity.
C15_InverseIsRightInverse ==
  /\ (last.op = "inverse" /\ Det(Receiver) # 0) => multiply(Receiver, Result) = Identity
  /\ (/\ last.op = "multiply"
      /\ Det(Receiver) # 0
      /\ Exact(Receiver)
      /\ Argument = inverse(Receiver)) => Result = Identity

\* M.multiply(M.inverse()) was called on a matrix that turns and moves
C15_Witness ==
  /\ last.op = "multiply"
  /\ last.recv = 1
  /\ last.args = <<3>>
  /\ Len(last.before) = 3
  /\ Det(Receiver) = -1
  /\ Receiver.b # 0 /\ Receiver.e = 3
  /\ Argument = inverse(Receiver)
  /\ Result = Identity

\* C16: inverse() of a matrix with determinant 0 returns the identity, whatever
\* the matrix's e and f, and does not fail.
C16_SingularGivesIdentity ==
  (last.op = "inverse" /\ Det(Receiver) = 0) => (last.outcome = "ok" /\ Result = Identity)

\* a singular matrix with a translation part was inverted
C16_Witness ==
  /\ last.op = "inverse"
  /\ Det(Receiver) = 0
  /\ Receiver.e = 3 /\ Receiver.a = 2
  /\ Result = Identity

\* C17: multiply, inverse, translate and scale leave every existing matrix as
\* it was and return a new object, neither the receiver nor the argument.
C17_MatricesImmutable ==
  last.op \in MatrixOps =>
    /\ Len(mats) = Len(last.before) + 1
    /\ \A i \in 1..Len(last.before) : mats[i] = last.before[i]
    /\ last.ret = Len(mats)
    /\ last.ret # last.recv
    /\ \A k \in 1..Len(last.args) : last.op = "multiply" => last.ret # last.args[k]

\* a matrix was multiplied by itself after an earlier call, and it differs from
\* the product
C17_Witness ==
  /\ last.op = "multiply"
  /\ last.args = <<last.recv>>
  /\ Len(last.before) = 3
  /\ Result # Receiver

\* C18: createSVGMatrix() returns (1,0,0,1,0,0), and M.multiply(identity) and
\* identity.multiply(M) are M.
C18_IdentityIsNeutral ==
  /\ last.op = "createSVGMatrix" => Result = Identity
  /\ (last.op = "multiply" /\ Argument = Identity) => Result = Receiver
  /\ (last.op = "multiply" /\ Receiver = Identity) => Result = Argument

\* a matrix was multiplied by the matrix createSVGMatrix() had returned
C18_Witness ==
  /\ last.op = "multiply"
  /\ last.args = <<3>>
  /\ Len(last.before) = 3
  /\ Argument = Identity
  /\ Receiver.b = 2 /\ Receiver.e = 3
  /\ Result = Receiver

\* ------------------------------------------------------------------ C19
Mutators == {"setTranslate", "setScale", "setRotate", "setMatrix"}
SixCoefficients == {"a", "b", "c", "d", "e", "f"}

\* the same call made on an item that createSVGTransform has just returned
OnFreshItem(call) ==
  LET fresh == createSVGTransformObject
      p == call.args
  IN CASE call.op = "setTranslate" -> setTranslate(fresh, p[1], p[2])
       [] call.op = "setScale" -> setScale(fresh, p[1], p[2])
       [] call.op = "setRotate" -> setRotate(fresh, p[1], p[2], p[3])
       [] call.op = "setMatrix" -> setMatrix(fresh, p[1])

\* C19: an item that createSVGTransform returns has the identity matrix and
\* type 0; after a mutator call the item has the matrix and the type that
\* the call alone determines, whatever the item was before: setTranslate(x, y)
\* leaves (1,0,0,1,x,y) and type 2, setScale(sx, sy) leaves (sx,0,0,sy,0,0)
\* and type 3, setMatrix(m) leaves m's six coefficients and type 1, and every
\* mutator leaves what it leaves on a fresh item
C19_MutatorReplacesMatrix ==
  /\ last.op = "createSVGTransform" =>
       /\ objs[last.ret].matrix = [a |-> 1, b |-> 0, c |-> 0, d |-> 1, e |-> 0, f |-> 0]
       /\ objs[last.ret].type = 0
  /\ last.op \in Mutators =>
       LET item == objs[last.recv]
           p == last.args
       IN /\ last.op = "setTranslate" =>
               /\ item.matrix = [a |-> 1, b |-> 0, c |-> 0, d |-> 1, e |-> p[1], f |-> p[2]]
               /\ item.type = 2
          /\ last.op = "setScale" =>
               /\ item.matrix = [a |-> p[1], b |-> 0, c |-> 0, d |-> p[2], e |-> 0, f |-> 0]
               /\ item.type = 3
          /\ (last.op = "setMatrix" /\ DOMAIN p[1] = SixCoefficients) =>
               /\ item.matrix = p[1]
               /\ item.type = 1
          /\ item.matrix = OnFreshItem(last).matrix
          /\ item.type = OnFreshItem(last).type

\* an item that was scaled by (2, 3) is translated by (5, 3)
C19_Witness ==
  /\ last.op = "setTranslate"
  /\ last.before[1].type = 3
  /\ last.before[1].matrix.a = 2
  /\ last.before[1].matrix.d = 3
  /\ last.args = <<5, 3>>
  /\ objs[last.recv].matrix.a = 1

\* ------------------------------------------------------------------ C20
\* the length of the number that s starts with (0 when it starts with none):
\* a decimal literal, with its exponent when it has one
NumberLength(s) ==
  LET sign == IF Len(s) > 0 /\ s[1] = "-" THEN 1 ELSE 0
      ip == DigitPrefix(SubSeq(s, sign + 1, Len(s)))
      after == SubSeq(s, sign + Len(ip) + 1, Len(s))
      dot == IF Len(after) > 0 /\ after[1] = "." THEN 1 ELSE 0
      fp == IF dot = 1 THEN DigitPrefix(Tail(after)) ELSE <<>>
      n == sign + Len(ip) + dot + Len(fp)
      rest == SubSeq(s, n + 1, Len(s))
      esign == IF Len(rest) > 1 /\ rest[2] \in {"-", "+"} THEN 1 ELSE 0
      ep == IF Len(rest) > 0 /\ rest[1] \in {"e", "E"}
            THEN DigitPrefix(SubSeq(rest, 2 + esign, Len(rest))) ELSE <<>>
  IN IF Len(ip) = 0 THEN 0
     ELSE IF Len(ep) > 0 THEN n + 1 + esign + Len(ep) ELSE n

\* the numeric tokens of a d attribute from left to right
RECURSIVE NumericTokens(_)
NumericTokens(s) ==
  IF Len(s) = 0 THEN <<>>
  ELSE LET n == NumberLength(s)
       IN IF n = 0 THEN NumericTokens(Tail(s))
          ELSE <<SubSeq(s, 1, n)>> \o NumericTokens(SubSeq(s, n + 1, Len(s)))

RECURSIVE Pow10(_)
Pow10(n) == IF n = 0 THEN 1 ELSE 10 * Pow10(n - 1)

\* the value of a numeric token (of those with an integer value: a fraction
\* of zeros, an exponent that is not negative)
TokenValue(t) ==
  LET neg == t[1] = "-"
      u == IF neg THEN Tail(t) ELSE t
      ip == DigitPrefix(u)
      after == SubSeq(u, Len(ip) + 1, Len(u))
      fp == IF Len(after) > 0 /\ after[1] = "." THEN DigitPrefix(Tail(after)) ELSE <<>>
      rest == SubSeq(after, (IF Len(after) > 0 /\ after[1] = "." THEN 2 ELSE 1) + Len(fp),
                     Len(after))
      ep == IF Len(rest) > 0 THEN SubSeq(rest, IF rest[2] = "+" THEN 3 ELSE 2, Len(rest))
            ELSE <<>>
  IN CASE (\A i \in 1..Len(fp) : fp[i] = "0") /\ (\A i \in 1..Len(ep) : ep[i] \in Digits) ->
            (IF neg THEN 0 - Decimal(ip) ELSE Decimal(ip)) * Pow10(Decimal(ep))

\* C20: getBBox of a path pairs the numbers of its d attribute as they come
\* (the 1st with the 2nd, the 3rd with the 4th, a last one without partner
\* left out), whatever letters stand between them, and returns the extents of
\* these points: x and y the least, width and height the spans, so that every
\* point lies in the box; with fewer than two numbers, or without d, it
\* returns the zero box.
C20_PathSamplesEveryNumber ==
  (box.called /\ LowerCased(node.tagName) = "path") =>
     LET tokens == NumericTokens(AttributeOr(node, "d", <<>>))
         value(j) == Num(TokenValue(tokens[j]))
         samples == {<<value(2 * i - 1), value(2 * i)>> : i \in 1..(Len(tokens) \div 2)}
         xs == {p[1] : p \in samples}
         ys == {p[2] : p \in samples}
         b == box.value
     IN IF Len(tokens) < 2 THEN Fields(b) = ZeroFields
        ELSE /\ IsMin(b.x, xs)
             /\ IsMin(b.y, ys)
             /\ \E right \in xs : IsMax(right, xs) /\ b.width = JsSub(right, b.x)
             /\ \E bottom \in ys : IsMax(bottom, ys) /\ b.height = JsSub(bottom, b.y)
             /\ \A p \in samples :
                  /\ JsLe(b.x, p[1]) /\ JsLe(p[1], JsAdd(b.x, b.width))
                  /\ JsLe(b.y, p[2]) /\ JsLe(p[2], JsAdd(b.y, b.height))

\* ------------------------------------------------------------------ C21
\* s is numbers with white space and/or commas between them
RECURSIVE Separated(_)
Separated(s) ==
  LET n == NumberLength(s)
      rest == SubSeq(s, n + 1, Len(s))
  IN /\ n > 0
     /\ \/ Len(rest) = 0
        \/ IsSeparator(rest[1]) /\ Separated(DropSeparators(rest))

\* the points attribute holds k >= 1 complete pairs
CompletePairs(el) ==
  LET s == trim(AttributeOr(el, "points", <<>>))
  IN Separated(s) /\ Len(NumericTokens(s)) % 2 = 0

\* C21: getBBox of a polygon or polyline whose points are k >= 1 complete
\* pairs returns the extents of the points: x and y the least coordinates,
\* width and height the spans, which are not negative, and every point lies
\* in the box.
C21_PolygonExtents ==
  (box.called /\ node.tagName \in {"polygon", "polyline"} /\ CompletePairs(node)) =>
     LET tokens == NumericTokens(AttributeOr(node, "points", <<>>))
         value(j) == Num(TokenValue(tokens[j]))
         points == {<<value(2 * i - 1), value(2 * i)>> : i \in 1..(Len(tokens) \div 2)}
         xs == {p[1] : p \in points}
         ys == {p[2] : p \in points}
         b == box.value
     IN /\ IsMin(b.x, xs)
        /\ IsMin(b.y, ys)
        /\ \E right \in xs : IsMax(right, xs) /\ b.width = JsSub(right, b.x)
        /\ \E bottom \in ys : IsMax(bottom, ys) /\ b.height = JsSub(bottom, b.y)
        /\ JsLe(Num(0), b.width) /\ JsLe(Num(0), b.height)
        /\ \A p \in points :
             /\ JsLe(b.x, p[1]) /\ JsLe(p[1], JsAdd(b.x, b.width))
             /\ JsLe(b.y, p[2]) /\ JsLe(p[2], JsAdd(b.y, b.height))

\* a polyline through (7, -3) and (1, 7) measures {1, -3, 6, 10}
C21_Witness ==
  /\ box.called
  /\ node.tagName = "polyline"
  /\ CompletePairs(node)
  /\ Len(NumericTokens(AttributeOr(node, "points", <<>>))) = 4
  /\ Fields(box.value) = <<Num(1), Num(-3), Num(6), Num(10)>>

\* ------------------------------------------------------------------ C22
\* the declarations of a style: the pieces between semicolons
RECURSIVE SplitAt(_, _)
SplitAt(s, c) ==
  IF \A i \in 1..Len(s) : s[i] # c THEN <<s>>
  ELSE LET n == CHOOSE i \in 1..Len(s) : s[i] = c /\ \A j \in 1..(i - 1) : s[j] # c
       IN <<SubSeq(s, 1, n - 1)>> \o SplitAt(SubSeq(s, n + 1, Len(s)), c)

LowerCased1(s) == [i \in 1..Len(s) |-> LowerCase(s[i])]

\* the number of a declaration font-size:<num>px, -1 when d is none
DeclaredFontSize(d) ==
  LET parts == SplitAt(d, ":")
      name == LowerCased1(trim(parts[1]))
      value == IF Len(parts) = 2 THEN LowerCased1(trim(parts[2])) ELSE <<>>
      num == SubSeq(value, 1, Len(value) - 2)
  IN IF /\ name = <<"f", "o", "n", "t", "-", "s", "i", "z", "e">>
        /\ Len(value) > 2
        /\ SubSeq(value, Len(value) - 1, Len(value)) = <<"p", "x">>
        /\ AllDigits(num)
     THEN Decimal(num) ELSE -1

\* the font size by the rule of precedence
ResolvedFontSize(el) ==
  LET declarations == SplitAt(AttributeOr(el, "style", <<>>), ";")
      declared == {i \in 1..Len(declarations) : DeclaredFontSize(declarations[i]) >= 0}
      attribute1 == trim(AttributeOr(el, "font-size", <<>>))
  IN IF declared # {}
     THEN DeclaredFontSize(declarations[CHOOSE i \in declared : \A j \in declared : i <= j])
     ELSE IF AllDigits(attribute1) THEN Decimal(attribute1)
     ELSE 12

\* C22: the font size of an element is the number of the font-size:<num>px
\* declaration of its style if there is one, else the font-size attribute if
\* it is present and a number, else 12, and never NaN; the box of a text lies
\* this font size above y and getComputedTextLength measures with it.
C22_FontSizePrecedence ==
  /\ box.called =>
       /\ box.value.y = JsSub(attr(node, "y"), Num(ResolvedFontSize(node)))
       /\ box.value.y.k # "NaN"
  /\ last.op = "getComputedTextLength" =>
       /\ last.ret = measureText(textContent(node), Num(ResolvedFontSize(node)))
       /\ last.ret.k # "NaN"

\* ------------------------------------------------------------------ C23
\* the nodes below el, in document order
RECURSIVE Below(_)
RECURSIVE BelowAll(_, _)
BelowAll(children, i) ==
  IF i > Len(children) THEN <<>>
  ELSE <<children[i]>> \o Below(children[i]) \o BelowAll(children, i + 1)
Below(el) == BelowAll(el.childNodes, 1)

TspanDescendants(el) == Cardinality({i \in 1..Len(Below(el)) : Below(el)[i].tagName = "tspan"})

\* C23: the box of a text or tspan element with font size s has x = attribute
\* x and y = attribute y - s; with more than one tspan descendant it is 90
\* wide and 14 high per tspan, otherwise as wide as measureText(textContent, s)
\* and 1.2 * s high.
C23_TextBox ==
  (box.called /\ node.tagName \in {"text", "tspan"}) =>
     LET s == Num(ResolvedFontSize(node))
         n == TspanDescendants(node)
         b == box.value
     IN /\ b.x = Num(ValueOrZero(node, "x"))
        /\ b.y = Num(ValueOrZero(node, "y") - s.v)
        /\ IF n > 1
           THEN b.width = Num(90) /\ b.height = Num(14 * n)
           ELSE /\ b.width = measureText(textContent(node), s)
                /\ b.height = Times(Double(Literal(12, 10)), s)

\* ------------------------------------------------------------------ C24
\* the sum of ratio(ch) * fontSize over the first n characters of text
RECURSIVE RatioSum(_, _, _)
RatioSum(text, fontSize, n) ==
  IF n = 0 THEN Num(0)
  ELSE Plus(RatioSum(text, fontSize, n - 1),
            Times(IF text[n] \in DOMAIN ARIAL_CHAR_RATIOS
                  THEN Double(Literal(ARIAL_CHAR_RATIOS[text[n]], 1000))
                  ELSE Double(Literal(55, 100)),
                  fontSize))

Reversed(s) == [i \in 1..Len(s) |-> s[Len(s) + 1 - i]]

\* the same number: kinds first, as the values of different kinds differ in shape
SameNumber(a, b) == a.k = b.k /\ (a.k \in {"num", "double"} => a.v = b.v)

MeasuredAsSum(text, fontSize) ==
  SameNumber(measureText(text, fontSize), RatioSum(text, fontSize, Len(text)))

Additive(text, fontSize) ==
  \A k \in 0..Len(text) :
     SameNumber(measureText(text, fontSize),
                Plus(measureText(SubSeq(text, 1, k), fontSize),
                     measureText(SubSeq(text, k + 1, Len(text)), fontSize)))

OrderIndependent(text, fontSize) ==
  SameNumber(measureText(Reversed(text), fontSize), measureText(text, fontSize))

LengthAsMeasured ==
  last.op = "getComputedTextLength" =>
     SameNumber(last.ret, measureText(textContent(node), Num(ResolvedFontSize(node))))

\* C24: measureText(text, fontSize) is the sum of ratio(ch) * fontSize over
\* the characters of text, with the default ratio outside the table; it is 0
\* for the empty string, additive over concatenation and independent of the
\* character order; getComputedTextLength(el) is measureText of el's
\* textContent at el's resolved font size.
C24_MeasureText ==
  LET text == textContent(node)
      fontSize == Num(ResolvedFontSize(node))
  IN /\ MeasuredAsSum(text, fontSize)
     /\ SameNumber(measureText(<<>>, fontSize), Num(0))
     /\ Additive(text, fontSize)
     /\ OrderIndependent(text, fontSize)
     /\ LengthAsMeasured

\* ------------------------------------------------------------------ C25
BatchReturned == reply.op = "batch_dmn_operations" /\ ~reply.thrown

StopsOnError(args) == ~Has(args, "stopOnError") \/ args.stopOnError

ReferencedIds(operations) ==
  {operations[i].args.diagramId :
     i \in {j \in 1..Len(operations) : Has(operations[j].args, "diagramId")}}

ModelerOf(w, id) == w.modelers[w.states[getDiagram(w, id)].modeler]

\* the number of operations run in order from operation i on until one fails
RECURSIVE RunUntilFailure(_, _, _)
RunUntilFailure(w, operations, i) ==
  IF i > Len(operations) THEN Len(operations)
  ELSE IF dispatchToolCall(w, operations[i].tool, operations[i].args).thrown THEN i
  ELSE RunUntilFailure(dispatchToolCall(w, operations[i].tool, operations[i].args).w,
                       operations, i + 1)

\* the diagram of this id is as it was before the call
Restored(id) ==
  /\ getDiagram(World, id) = getDiagram(reply.before, id)
  /\ ModelerOf(World, id).stackIdx = ModelerOf(reply.before, id).stackIdx
  /\ saveXML(ModelerOf(World, id)) = saveXML(ModelerOf(reply.before, id))
  /\ states[getDiagram(World, id)].xml = reply.before.states[getDiagram(World, id)].xml

\* C25: when a batch runs with stopOnError true (the default) and an operation
\* fails, no later operation is executed, the response has success = false and
\* rolledBack = true, and every diagram the batch refers to is back at its
\* command-stack position from before the batch, the changes of the earlier
\* operations undone.
C25_FailureRollsBack ==
  (BatchReturned /\ StopsOnError(reply.args) /\ reply.result.failed > 0) =>
     /\ reply.result.executed = RunUntilFailure(reply.before, reply.args.operations, 1)
     /\ ~reply.result.results[reply.result.executed].success
     /\ reply.result.success = FALSE
     /\ Has(reply.result, "rolledBack") /\ reply.result.rolledBack
     /\ \A id \in ReferencedIds(reply.args.operations) :
          getDiagram(reply.before, id) # UndefinedState => Restored(id)

\* ------------------------------------------------------------------ C26
\* what operation i of the batch gives when the operations before it have
\* run in array order
InOrder(i) ==
  LET operations == reply.args.operations
      w == AfterCalls(reply.before, SubSeq(operations, 1, i - 1), 1)
  IN dispatchToolCall(w, operations[i].tool, operations[i].args)

Describes(entry, i) ==
  /\ entry.index = i - 1
  /\ entry.tool = reply.args.operations[i].tool
  /\ entry.success = ~InOrder(i).thrown
  /\ IF entry.success THEN entry.result = InOrder(i).result
     ELSE entry.error = InOrder(i).result.error

\* C26: the operations of a batch run in array order and the response has
\* executed = succeeded + failed = number of result entries <= totalOperations,
\* success exactly when failed = 0, and result entry i describes operation i;
\* with stopOnError false every operation runs even after a failure and
\* nothing is rolled back.
C26_BatchResponse ==
  BatchReturned =>
     LET response == reply.result
         operations == reply.args.operations
     IN /\ response.totalOperations = Len(operations)
        /\ response.executed = response.succeeded + response.failed
        /\ response.executed = Len(response.results)
        /\ response.executed <= response.totalOperations
        /\ response.success = (response.failed = 0)
        /\ \A i \in 1..Len(response.results) : Describes(response.results[i], i)
        /\ ~StopsOnError(reply.args) =>
              /\ response.executed = response.totalOperations
              /\ ~Has(response, "rolledBack")
              /\ World = AfterCalls(reply.before, operations, 1)

\* a batch with stopOnError false whose second operation fails and whose third
\* moves the element all the same
C26_Witness ==
  /\ BatchReturned
  /\ ~StopsOnError(reply.args)
  /\ reply.result.executed = 3
  /\ reply.result.succeeded = 2
  /\ reply.result.failed = 1
  /\ ~reply.result.results[2].success
  /\ reply.result.results[3].tool = "move_dmn_element"
  /\ \E id \in GeneratedIds(World) :
       /\ getDiagram(reply.before, id) # UndefinedState
       /\ getDiagram(World, id) # UndefinedState
       /\ ModelerOf(World, id).stackIdx = ModelerOf(reply.before, id).stackIdx + 2

\* ------------------------------------------------------------------ C27
\* the last call was dmn_history on a stored diagram and did not throw
HistoryReturned(r) == r.op = "dmn_history" /\ ~r.thrown

Requested(r) == IF Has(r.args, "steps") THEN r.args.steps ELSE 1

\* the number of commands of the diagram that could be undone (redone) in w
Available(w, id, action) ==
  IF action = "undo" THEN ModelerOf(w, id).stackIdx + 1
  ELSE Len(ModelerOf(w, id).stack) - ModelerOf(w, id).stackIdx - 1

Min(a, b) == IF a < b THEN a ELSE b

\* the position after the call is the position before it, performed steps
\* down for an undo and up for a redo
MovedBy(r, w, performed) ==
  ModelerOf(w, r.args.diagramId).stackIdx =
     ModelerOf(r.before, r.args.diagramId).stackIdx
        + (IF r.args.action = "undo" THEN -performed ELSE performed)

PerformsTheMinimum ==
  (HistoryReturned(reply) /\ Available(reply.before, reply.args.diagramId, reply.args.action) > 0) =>
     /\ reply.result.success
     /\ reply.result.stepsPerformed =
          Min(Requested(reply), Available(reply.before, reply.args.diagramId, reply.args.action))
     /\ MovedBy(reply, World, reply.result.stepsPerformed)

NothingToDo ==
  (HistoryReturned(reply) /\ Available(reply.before, reply.args.diagramId, reply.args.action) = 0) =>
     /\ reply.result.success = FALSE
     /\ World = reply.before

\* the last two calls: an undo of k steps, then a redo of k steps, of one diagram
UndoThenRedo ==
  /\ HistoryReturned(reply) /\ reply.args.action = "redo"
  /\ reply.earlier # <<>>
  /\ HistoryReturned(reply.earlier) /\ reply.earlier.args.action = "undo"
  /\ reply.earlier.args.diagramId = reply.args.diagramId
  /\ Requested(reply.earlier) = Requested(reply)

PositionRestored ==
  ModelerOf(World, reply.args.diagramId).stackIdx =
     ModelerOf(reply.earlier.before, reply.args.diagramId).stackIdx

\* C27 (as stated): dmn_history with steps = n performs min(n, commands that
\* can be undone (redone)) steps and reports them as stepsPerformed; with
\* nothing to undo (redo) it returns success = false and changes nothing; an
\* undo of k steps followed by a redo of k steps restores the command-stack
\* position.
C27_AsStated ==
  /\ PerformsTheMinimum
  /\ NothingToDo
  /\ UndoThenRedo => PositionRestored

\* C27 (amended): as above, but the redo of k steps restores the position
\* only when the undo before it did perform k steps, that is when at least k
\* commands could be undone.
C27_HistorySteps ==
  /\ PerformsTheMinimum
  /\ NothingToDo
  /\ (/\ UndoThenRedo
      /\ reply.earlier.result.success
      /\ reply.earlier.result.stepsPerformed = Requested(reply)) => PositionRestored

\* two commands were undone and then redone
C27_Witness ==
  /\ UndoThenRedo
  /\ Requested(reply) = 2
  /\ reply.earlier.result.success
  /\ reply.earlier.result.stepsPerformed = 2
  /\ reply.result.success
  /\ reply.result.stepsPerformed = 2
  /\ PositionRestored

\* ------------------------------------------------------------------ C30
Stored(s) == \E i \in 1..Len(diagrams) : diagrams[i].state = s

\* every entry of the reverse index names an id whose diagram has that modeler
IndexAgrees ==
  \A m \in DOMAIN modelerToDiagramId :
     /\ getDiagram(World, modelerToDiagramId[m]) # UndefinedState
     /\ states[getDiagram(World, modelerToDiagramId[m])].modeler = m

\* C30: after any sequence of storeDiagram, deleteDiagram and clearDiagrams
\* the reverse index agrees with the store: getDiagramId(d) returns an id only
\* if getDiagram(id) is d, and undefined for a state that is not stored, also
\* after its id was overwritten by another state or the store was cleared.
C30_ReverseIndexAgrees ==
  /\ IndexAgrees
  /\ \A d \in 1..Len(states) :
       /\ getDiagramId(World, d) # UndefinedId =>
             getDiagram(World, getDiagramId(World, d)) = d
       /\ ~Stored(d) => getDiagramId(World, d) = UndefinedId

\* ------------------------------------------------------------------ C28
\* the items the list holds: the entries of its array that are items
ItemsHeld(list) == Cardinality({j \in 1..Len(list.items) : list.items[j] # 0})

\* C28: after any sequence of list operations, with any index, numberOfItems
\* is the number of items the list holds, and getItem(i) returns an item
\* exactly for 0 <= i < numberOfItems.
C28_NumberOfItems ==
  \A l \in 1..nLists :
     /\ lists[l].numberOfItems = ItemsHeld(lists[l])
     /\ \A index \in (-1)..(Len(lists[l].items) + 1) :
          (getItem(lists[l], index) # 0) <=>
             (0 <= index /\ index < lists[l].numberOfItems)

\* ------------------------------------------------------------------ C29
\* the element with all its attributes, `transform` among them
Whole(element, transform) ==
  IF transform.present THEN setAttribute(element, "transform", transform.value)
  ELSE element

\* the boxes of the elements of document d with the transform attributes a,
\* and of a group that is the parent of them all
BoxesOf(d, a) ==
  [el \in Elements \cup {"parent"} |->
     IF el = "parent"
     THEN Fields(polyfillGetBBox(
            Element("g", <<>>, <<Whole(d["e1"], a["e1"]), Whole(d["e2"], a["e2"])>>)))
     ELSE Fields(polyfillGetBBox(Whole(d[el], a[el])))]

Boxes == BoxesOf(doc, attribute)

\* the step is a list operation on list l
KeepsFrame(l) ==
  /\ doc' = doc
  /\ empty' = empty
  /\ elList' = elList
  /\ Len(lists') = Len(lists)
  /\ \A k \in 1..Len(lists) : k # l => lists'[k] = lists[k]
  /\ lists'[l].element = lists[l].element
  /\ \A el \in Elements : el # lists[l].element => attribute'[el] = attribute[el]
  /\ SubSeq(objs', 1, Len(objs)) = objs
  /\ BoxesOf(doc', attribute') = BoxesOf(doc, attribute)

\* C29: a TransformList operation changes at most the list it is called on
\* and the `transform` attribute of the element that owns it: no other
\* attribute of that element, no attribute and no list of another element;
\* getBBox of every element, the owner and its parent included, returns the
\* same box after the operation as before it.
C29_TransformFrame ==
  [][(calls' = calls + 1 /\ last'.op \in ListOps) => KeepsFrame(last'.recv)]_vars

\* appendItem has written the attribute of a rect that had none, beside an
\* element whose attribute comes from the markup
C29_Witness ==
  /\ last.op = "appendItem"
  /\ last.outcome = "ok"
  /\ doc["e2"].tagName = "rect"
  /\ lists[last.recv].element = "e2"
  /\ attribute["e2"].present
  /\ attribute["e1"] = MarkupTransform("e1")
  /\ Boxes["e2"] = <<Num(1), Num(2), Num(5), Num(7)>>

====
